---- MODULE Spec2Model ----
(***************************************************************************)
(* Model of the real-time coordination layer of the collaborative          *)
(* whiteboard server (src/Backend/server.js) and of the client's stroke    *)
(* emission (src/frontend/src/pages/Whiteboard.js, Session.js).            *)
(*                                                                         *)
(* Every socket.io handler is an async function: it runs synchronously up  *)
(* to its first await, and each await of a durable-store wrapper is a      *)
(* suspension point.  A handler is therefore one "start" action (the code  *)
(* up to the first await) and one "resume" action per await; a resume      *)
(* applies the awaited store operation and runs the code up to the next    *)
(* await.  Suspended handlers live in inflight.                            *)
(***************************************************************************)
EXTENDS Integers, Sequences, FiniteSets, TLC

\* ---------------------------------------------------------------- bounds
MaxSockets == 3
MaxEvents == 5
MaxKickEvents == 7
MaxStrokeEvents == 7
MaxRoundEvents == 6
MaxInFlight == 2
MaxStrokes == 2
MaxPoints == 2
MaxTimers == 2
MaxDbFailures == 1
MaxMessages == 2

\* ---------------------------------------------------------------- inputs
Users == {"A", "B"}
Sessions == {"s1"}
NoKey == "nokey"
\* join-session payloads: sessionName present or not, isPrivate, sessionKey
JoinInputs ==
    {[name |-> FALSE, priv |-> FALSE, key |-> k] : k \in {NoKey, "K1", "K2"}}
    \cup {[name |-> TRUE, priv |-> FALSE, key |-> NoKey],
          [name |-> TRUE, priv |-> TRUE, key |-> "K1"]}
\* point batches of whiteboard-point and stroke lists of whiteboard-update
PointBatches == {<<1>>}
StrokeLists == {<< >>, << <<1>> >>}
\* chat messages
ChatTexts == {"m1"}

SocketIds == 1..MaxSockets

VARIABLES
    live,                    \* socketIoServer.sockets.sockets: connected socket ids
    nextSock,                \* next fresh socket id
    sockUser,                \* socket id -> handshake userId
    rooms,                   \* sessionId -> sockets joined to the room
    activeSessionsInMemory,  \* sessionId -> cached session state
    socketIdToSessionInfo,   \* socket id -> [userId, sessionId]
    activeUserSockets,       \* userId -> registered socket
    pendingJoinRequests,     \* <<sessionId, userId>> -> socketId of the request
    sessionDeletionTimeouts, \* sessionId -> id of the last armed timer
    timers,                  \* armed setTimeout callbacks
    nextTimer,               \* next fresh timer id
    db,                      \* the Session collection: sessionId -> document
    inflight,                \* suspended handlers
    emitted,                 \* events delivered by the last step
    last,                    \* label of the last step
    eventsLeft,              \* client events the run still admits
    dbFailures,              \* store operations that exhausted their retries
    clients,                 \* socket id -> state of the Session page behind it
    roundTrip                \* sessionId -> the stroke list last sent by whiteboard-update

vars == <<live, nextSock, sockUser, rooms, activeSessionsInMemory,
          socketIdToSessionInfo, activeUserSockets, pendingJoinRequests,
          sessionDeletionTimeouts, timers, nextTimer, db, inflight, emitted,
          last, eventsLeft, dbFailures, clients, roundTrip>>

\* ---------------------------------------------------------------- helpers
EmptyFn == [x \in {} |-> TRUE]
SetOf(seq) == {seq[i] : i \in DOMAIN seq}
Put(f, k, v) == [x \in (DOMAIN f) \cup {k} |-> IF x = k THEN v ELSE f[x]]
Del(f, k) == [x \in (DOMAIN f) \ {k} |-> f[x]]
\* Set.add / Array.push of a participant, keeping insertion order
AddPart(seq, u) == IF u \in SetOf(seq) THEN seq ELSE Append(seq, u)
\* Set.delete / Array.filter
DelPart(seq, u) == SelectSeq(seq, LAMBDA x : x # u)
\* drawingPermissions[u] read as a JS truth value (undefined is falsy)
Truthy(perms, u) == u \in DOMAIN perms /\ perms[u]

\* an emitted event; unused fields keep their defaults
Ev(to, ev, sid, uid, n) ==
    [to |-> to, ev |-> ev, sid |-> sid, uid |-> uid, n |-> n, msg |-> "",
     strokes |-> << >>, perms |-> EmptyFn, owner |-> "", parts |-> << >>]
\* socketIoServer.to(room).emit: every socket in the room
ToRoom(rm, sid, ev, uid, n, owner) ==
    {[Ev(t, ev, sid, uid, n) EXCEPT !.owner = owner] : t \in rm[sid]}
\* a broadcast that comes back to the sender
ToOthersAndBack(rm, sk, sid, ev, uid, n, owner) ==
    {[Ev(t, ev, sid, uid, n) EXCEPT !.owner = owner] : t \in rm[sid]}
\* socket.to(room).emit: every socket in the room but the sender
ToOthers(rm, sk, sid, ev, uid, n, owner) ==
    {[Ev(t, ev, sid, uid, n) EXCEPT !.owner = owner] : t \in rm[sid] \ {sk}}

\* a suspended handler; unused locals keep their defaults
H(op, pc, sk, sid, uid) ==
    [op |-> op, pc |-> pc, sock |-> sk, sid |-> sid, uid |-> uid, tgt |-> "",
     tsock |-> 0, name |-> FALSE, priv |-> FALSE, key |-> NoKey, isNew |-> FALSE,
     docPrivate |-> FALSE, strokes |-> << >>, messages |-> << >>, perms |-> EmptyFn,
     owner |-> "", stale |-> FALSE, before |-> 0]
\* the label of a step; before is the participant count a kick started from
Label(op, pc, sk, sid, uid) ==
    [op |-> op, pc |-> pc, sock |-> sk, sid |-> sid, uid |-> uid, tgt |-> "", ok |-> TRUE,
     before |-> 0]

\* handlers whose local sessionState refers to the cache entry of sid
HoldsState(h, sid) ==
    /\ h.sid = sid
    /\ ~(h.op = "join" /\ h.pc \in {"get", "create"})
    /\ ~(h.op = "timer")

\* ---------------------------------------------------------------- store
\* The outcome of an awaited store wrapper: it either succeeds or throws
\* after MAX_RETRIES failed attempts.
DbOutcomes == IF dbFailures < MaxDbFailures THEN {"ok", "fail"} ELSE {"ok"}
DbCount(outcome) == IF outcome = "fail" THEN dbFailures + 1 ELSE dbFailures

\* createOrUpdateMongoSession(sessionId, newSessionData, hostUserId) as called
\* by the auto-create of join-session
\* what the Session model (models/Session) lets be saved: the record layout
\* has the key as an optional field, so every record is accepted
SessionAccepted(doc) == TRUE

CreateOrUpdateMongoSession(d, sid, inp, host) ==
    LET doc ==
            IF sid \in DOMAIN d
            THEN [d[sid] EXCEPT
                     !.drawingPermissions = EmptyFn,
                     !.messages = << >>,
                     !.whiteboardStrokes = << >>,
                     !.isPrivate = inp.priv,
                     !.sessionKey = IF inp.priv /\ inp.key # NoKey THEN inp.key ELSE @]
            ELSE [host |-> host, participants |-> <<host>>,
                  drawingPermissions |-> [x \in {host} |-> TRUE],
                  messages |-> << >>, whiteboardStrokes |-> << >>,
                  isPrivate |-> inp.priv,
                  sessionKey |-> IF inp.priv THEN inp.key ELSE NoKey]
    IN IF SessionAccepted(doc) THEN Put(d, sid, doc) ELSE d

\* updateSessionInMongoDB(sessionId, {field: value}): no upsert
UpdateField(d, sid, field, value) ==
    IF sid \in DOMAIN d THEN Put(d, sid, [d[sid] EXCEPT ![field] = value]) ELSE d

AddParticipantToMongoSession(d, sid, u) ==
    IF sid \in DOMAIN d
    THEN Put(d, sid, [d[sid] EXCEPT !.participants = AddPart(@, u)])
    ELSE d

RemoveParticipantFromMongoSession(d, sid, u) ==
    IF sid \in DOMAIN d
    THEN Put(d, sid, [d[sid] EXCEPT !.participants = DelPart(@, u),
                                    !.drawingPermissions = Del(@, u)])
    ELSE d

DeleteMongoSession(d, sid) == Del(d, sid)

\* the Session page before session-state arrives (Session.js useState defaults)
NewClient ==
    [sessionId |-> "", whiteboardData |-> << >>, liveStrokes |-> EmptyFn,
     canDraw |-> FALSE, currentStroke |-> << >>, strokesDrawn |-> 0, out |-> << >>]

\* ---------------------------------------------------------------- Init
\* the server right after start-up, with n client events to come
Start(n) ==
    /\ live = {}
    /\ nextSock = 1
    /\ sockUser = EmptyFn
    /\ rooms = [s \in Sessions |-> {}]
    /\ activeSessionsInMemory = EmptyFn
    /\ socketIdToSessionInfo = EmptyFn
    /\ activeUserSockets = EmptyFn
    /\ pendingJoinRequests = EmptyFn
    /\ sessionDeletionTimeouts = EmptyFn
    /\ timers = {}
    /\ nextTimer = 1
    /\ db = EmptyFn
    /\ inflight = {}
    /\ emitted = {}
    /\ last = Label("init", "", 0, "", "")
    /\ eventsLeft = n
    /\ dbFailures = 0
    /\ clients = [sk \in SocketIds |-> NewClient]
    /\ roundTrip = EmptyFn

Init == Start(MaxEvents)

\* ---------------------------------------------------------------- frame
\* the payload userId a client puts in its events: its own identity
PayloadUsers(sk) == {sockUser[sk]}

Deliver(evs, lv) == {e \in evs : e.to \in lv}
Leave(rm, sk) == [s \in Sessions |-> rm[s] \ {sk}]
Join(rm, sk, sid) == IF sk \in live THEN [rm EXCEPT ![sid] = @ \cup {sk}] ELSE rm
Info(sk) == socketIdToSessionInfo[sk]
Bound(sk, sid, u) ==
    /\ sk \in DOMAIN socketIdToSessionInfo
    /\ Info(sk).sessionId = sid
    /\ Info(sk).userId = u
\* socketIdToSessionInfo.get(socket.id)?.userId
RequestingUserId(sk) ==
    IF sk \in DOMAIN socketIdToSessionInfo THEN Info(sk).userId ELSE "undefined"
\* an owner check that lets through whoever may draw
NotOwnerUnlessMayDraw(sk, sid) ==
    \/ sid \notin DOMAIN activeSessionsInMemory
    \/ /\ activeSessionsInMemory[sid].ownerId # RequestingUserId(sk)
       /\ ~Truthy(activeSessionsInMemory[sid].drawingPermissions, RequestingUserId(sk))

\* !sessionState || sessionState.ownerId !== requestingUserId
NotOwner(sk, sid) ==
    \/ sid \notin DOMAIN activeSessionsInMemory
    \/ activeSessionsInMemory[sid].ownerId # RequestingUserId(sk)

\* a pending check that finds a request for everybody
NoPendingRequestSkipped(sid, rid) == FALSE

\* !requesterInfo: pendingJoinRequests.get(sessionId)?.get(requesterId) is missing
NoPendingRequest(sid, rid) == <<sid, rid>> \notin DOMAIN pendingJoinRequests

CanSpawn == Cardinality(inflight) < MaxInFlight
ClientStep == eventsLeft > 0
\* one more client event
Count == eventsLeft' = eventsLeft - 1

\* cancelSessionDeletion(sessionId)
CancelTimers(sid) ==
    IF sid \in DOMAIN sessionDeletionTimeouts
    THEN {t \in timers : t.id # sessionDeletionTimeouts[sid]}
    ELSE timers
CancelMap(sid) == Del(sessionDeletionTimeouts, sid)
\* setTimeout(...) and sessionDeletionTimeouts.set(sessionId, timeoutId)
ArmTimers(sid) == timers \cup {[sid |-> sid, id |-> nextTimer, stale |-> FALSE]}
ArmMap(sid) == Put(sessionDeletionTimeouts, sid, nextTimer)
\* the timers of sid that were armed before a participant (re)joined
MarkRejoin(ts, sid) ==
    {IF t.sid = sid THEN [t EXCEPT !.stale = TRUE] ELSE t : t \in ts}

\* the tail shared by leave, kick and disconnect: arm the cleanup timer when
\* the session is empty, otherwise cancel a pending deletion
CleanupStep(sid, count) ==
    IF count = 0
    THEN /\ nextTimer <= MaxTimers
         /\ timers' = ArmTimers(sid)
         /\ sessionDeletionTimeouts' = ArmMap(sid)
         /\ nextTimer' = nextTimer + 1
    ELSE /\ timers' = CancelTimers(sid)
         /\ sessionDeletionTimeouts' = CancelMap(sid)
         /\ UNCHANGED nextTimer

\* a kick that leaves the room as it is
SocketsToKickNone(sid, u) == {}

\* kick-participant step 4: the connected sockets bound to the target in the session
SocketsToKick(sid, u) == {s \in live : Bound(s, sid, u)}

\* owner reassignment shared by leave, kick and disconnect
NeedsNewOwner(st, u) == st.ownerId = u /\ Len(st.participants) > 0
Reassign(st) ==
    [st EXCEPT !.ownerId = st.participants[1],
               !.drawingPermissions = Put(@, st.participants[1], TRUE)]

\* ---------------------------------------------------------------- round trip
\* What became of the stroke list S of the last whiteboard-update the server
\* accepted for a session, until the next accepted end of stroke:
\*   written: a write of S has reached the durable record
\*   intact:  the durable record has held S ever since
\*   evicted: the cache entry has been deleted since S was sent
\* The entry ends with the session (neither cache entry nor durable record).
UpdateAccepted(sid) ==
    last'.op = "update" /\ last'.pc = "start" /\ last'.ok /\ last'.sid = sid
StrokeEnded(sid) ==
    /\ last'.op = "point" /\ last'.pc = "start" /\ last'.ok
    /\ last'.tgt = "end" /\ last'.sid = sid
UpdateSaved(sid) ==
    last'.op = "update" /\ last'.pc = "done" /\ last'.sid = sid
RecordHolds(sid, strokes) ==
    sid \in DOMAIN db' /\ db'[sid].whiteboardStrokes = strokes
RoundTripKept(sid) ==
    \/ UpdateAccepted(sid)
    \/ /\ sid \in DOMAIN roundTrip
       /\ ~StrokeEnded(sid)
       /\ sid \in DOMAIN activeSessionsInMemory' \/ sid \in DOMAIN db'
RoundTripEntry(sid) ==
    IF UpdateAccepted(sid)
    THEN [strokes |-> activeSessionsInMemory'[sid].whiteboardStrokes,
          written |-> FALSE, intact |-> FALSE, evicted |-> FALSE]
    ELSE LET e == roundTrip[sid]
             lands == UpdateSaved(sid) /\ RecordHolds(sid, e.strokes)
         IN [strokes |-> e.strokes,
             written |-> e.written \/ lands,
             intact |-> (e.intact \/ lands) /\ RecordHolds(sid, e.strokes),
             evicted |-> \/ e.evicted
                         \/ /\ sid \in DOMAIN activeSessionsInMemory
                            /\ sid \notin DOMAIN activeSessionsInMemory']
RoundTripStep ==
    roundTrip' = [sid \in {s \in Sessions : RoundTripKept(s)} |-> RoundTripEntry(sid)]

\* ---------------------------------------------------------------- connection
\* socketIoServer.on('connection'): evict the user's registered socket
Connect(u) ==
    /\ nextSock <= MaxSockets
    /\ ClientStep
    /\ LET sk == nextSock
           hasOld == u \in DOMAIN activeUserSockets
           old == IF hasOld THEN activeUserSockets[u] ELSE 0
           hasInfo == hasOld /\ old \in DOMAIN socketIdToSessionInfo
           oldSid == IF hasInfo THEN Info(old).sessionId ELSE ""
           inMem == hasInfo /\ oldSid \in DOMAIN activeSessionsInMemory
           others == {s \in live \ {old} : Bound(s, oldSid, u)}
           removeIt == inMem /\ others = {}
           cache1 == IF removeIt
                     THEN [activeSessionsInMemory EXCEPT
                              ![oldSid].participants = DelPart(@, u)]
                     ELSE activeSessionsInMemory
           evs == IF removeIt
                  THEN ToRoom(rooms, oldSid, "user-left", u,
                              Len(cache1[oldSid].participants), "")
                  ELSE {}
       IN /\ activeSessionsInMemory' = cache1
          /\ socketIdToSessionInfo' =
                 IF hasInfo THEN Del(socketIdToSessionInfo, old)
                 ELSE socketIdToSessionInfo
          /\ live' = (live \ {old}) \cup {sk}
          /\ rooms' = Leave(rooms, old)
          /\ activeUserSockets' = Put(activeUserSockets, u, sk)
          /\ sockUser' = Put(sockUser, sk, u)
          /\ nextSock' = nextSock + 1
          /\ emitted' = Deliver(evs, live \ {old})
          /\ last' = [Label("connect", "", sk, oldSid, u) EXCEPT !.ok = hasOld]
    /\ Count
    /\ UNCHANGED clients
    /\ UNCHANGED <<pendingJoinRequests, sessionDeletionTimeouts, timers,
                   nextTimer, db, inflight, dbFailures>>
    /\ RoundTripStep

\* ---------------------------------------------------------------- join-session
\* join-session up to its first await; boundBefore is kept with the handler
\* for observation only (no code reads it)
JoinSessionNoting(sk, sid, inp, boundBefore) ==
    /\ sk \in live
    /\ ClientStep
    /\ CanSpawn
    /\ \E u \in PayloadUsers(sk) :
          /\ socketIdToSessionInfo' =
                 Put(socketIdToSessionInfo, sk, [userId |-> u, sessionId |-> sid])
          /\ inflight' = inflight \cup
                 {[H("join", "get", sk, sid, u) EXCEPT
                      !.name = inp.name, !.priv = inp.priv, !.key = inp.key,
                      !.tgt = boundBefore]}
          /\ last' = Label("join", "start", sk, sid, u)
    /\ emitted' = {}
    /\ Count
    /\ UNCHANGED clients
    /\ UNCHANGED <<live, nextSock, sockUser, rooms, activeSessionsInMemory,
                   activeUserSockets, pendingJoinRequests,
                   sessionDeletionTimeouts, timers, nextTimer, db, dbFailures>>
    /\ RoundTripStep

JoinSession(sk, sid, inp) == JoinSessionNoting(sk, sid, inp, "")

\* hydration that starts from an empty board
HydrateEmptyBoard(doc) ==
    [ownerId |-> doc.host, participants |-> << >>, messages |-> doc.messages,
     whiteboardStrokes |-> << >>,
     drawingPermissions |-> doc.drawingPermissions,
     isPrivate |-> doc.isPrivate, sessionKey |-> doc.sessionKey]

\* the in-memory state built from the durable document when the cache has none
Hydrate(doc) ==
    [ownerId |-> doc.host, participants |-> << >>, messages |-> doc.messages,
     whiteboardStrokes |-> doc.whiteboardStrokes,
     drawingPermissions |-> doc.drawingPermissions,
     isPrivate |-> doc.isPrivate, sessionKey |-> doc.sessionKey]

RECURSIVE AddAll(_, _)
AddAll(parts, more) ==
    IF more = << >> THEN parts ELSE AddAll(AddPart(parts, Head(more)), Tail(more))

\* the private rule applied to every session
DefaultPermissionOwnerOnly(st, u, isPrivate) == u = st.ownerId

\* default drawing permission of a joining user (only when unset)
DefaultPermission(st, u, isPrivate) ==
    IF isPrivate THEN u = st.ownerId ELSE TRUE

\* session-state as sent to a joining or approved socket
SessionState(to, sid, st, d) ==
    [Ev(to, "session-state", sid, "", Len(st.participants)) EXCEPT
        !.strokes = st.whiteboardStrokes,
        !.perms = st.drawingPermissions,
        !.owner = st.ownerId,
        !.parts = IF sid \in DOMAIN d THEN d[sid].participants ELSE << >>]

\* join-session from the drawing-permission default on: returns the new
\* cache, rooms and the handler suspended at its next await
JoinPermStep(cache, h) ==
    LET st == cache[h.sid] IN
    IF h.uid \in DOMAIN st.drawingPermissions
    THEN [cache |-> cache, rooms |-> Join(rooms, h.sock, h.sid),
          h |-> [h EXCEPT !.pc = "detail"]]
    ELSE LET perms == Put(st.drawingPermissions, h.uid,
                          DefaultPermission(st, h.uid, h.docPrivate))
         IN [cache |-> [cache EXCEPT ![h.sid].drawingPermissions = perms],
             rooms |-> rooms,
             h |-> [h EXCEPT !.pc = "perm", !.perms = perms]]

\* join-session once mongoSession is known: privacy check, approval request,
\* hydration and participant add (d is the store after the lookup/creation)
JoinProceed(h, d) ==
    LET doc == d[h.sid]
        lbl == Label("join", h.pc, h.sock, h.sid, h.uid)
    IN
    /\ db' = d
    /\ IF doc.isPrivate
       THEN /\ UNCHANGED <<activeSessionsInMemory, rooms, timers>>
            /\ IF h.key = NoKey \/ doc.sessionKey # h.key
               THEN /\ emitted' = Deliver({[Ev(h.sock, "join-failed", h.sid, h.uid, 0)
                                             EXCEPT !.msg = "invalid-key"]}, live)
                    /\ last' = [lbl EXCEPT !.tgt = "invalid-key", !.ok = FALSE]
                    /\ UNCHANGED pendingJoinRequests
               ELSE IF doc.host \in DOMAIN activeUserSockets
               THEN /\ pendingJoinRequests' =
                           Put(pendingJoinRequests, <<h.sid, h.uid>>, h.sock)
                    /\ emitted' = Deliver(
                           {[Ev(activeUserSockets[doc.host], "new-join-request",
                                h.sid, h.uid, h.sock) EXCEPT !.owner = doc.host],
                            Ev(h.sock, "join-awaiting-approval", h.sid, h.uid, 0)},
                           live)
                    /\ last' = [lbl EXCEPT !.tgt = "awaiting"]
               ELSE /\ pendingJoinRequests' = Del(pendingJoinRequests, <<h.sid, h.uid>>)
                    /\ emitted' = Deliver({[Ev(h.sock, "join-failed", h.sid, h.uid, 0)
                                             EXCEPT !.msg = "owner-offline"]}, live)
                    /\ last' = [lbl EXCEPT !.tgt = "owner-offline", !.ok = FALSE]
            /\ inflight' = inflight \ {h}
       ELSE LET st0 == IF h.sid \in DOMAIN activeSessionsInMemory
                       THEN activeSessionsInMemory[h.sid] ELSE Hydrate(doc)
                st1 == [st0 EXCEPT !.participants = AddAll(@, doc.participants)]
                isNew == h.uid \notin SetOf(st1.participants)
                cache1 == Put(activeSessionsInMemory, h.sid, st1)
                h1 == [h EXCEPT !.docPrivate = doc.isPrivate, !.isNew = isNew]
                r == JoinPermStep(cache1, h1)
            IN /\ IF isNew
                  THEN /\ activeSessionsInMemory' =
                              [cache1 EXCEPT ![h.sid].participants = Append(@, h.uid)]
                       /\ inflight' = (inflight \ {h}) \cup {[h1 EXCEPT !.pc = "add"]}
                       /\ UNCHANGED rooms
                  ELSE /\ activeSessionsInMemory' = r.cache
                       /\ rooms' = r.rooms
                       /\ inflight' = (inflight \ {h}) \cup {r.h}
               /\ timers' = MarkRejoin(timers, h.sid)
               /\ emitted' = {}
               /\ last' = [lbl EXCEPT !.tgt = "admitted"]
               /\ UNCHANGED pendingJoinRequests

\* resume after await getMongoSession(sessionId)
JoinGet(h, outcome) ==
    /\ h \in inflight /\ h.op = "join" /\ h.pc = "get"
    /\ outcome \in DbOutcomes
    /\ dbFailures' = DbCount(outcome)
    /\ IF outcome = "fail"
       THEN /\ emitted' = Deliver({[Ev(h.sock, "join-failed", h.sid, h.uid, 0)
                                     EXCEPT !.msg = "fetch-error"]}, live)
            /\ last' = [Label("join", "get", h.sock, h.sid, h.uid)
                           EXCEPT !.tgt = "fetch-error", !.ok = FALSE]
            /\ inflight' = inflight \ {h}
            /\ UNCHANGED <<db, activeSessionsInMemory, rooms, timers, pendingJoinRequests>>
       ELSE IF h.sid \notin DOMAIN db
       THEN /\ IF h.name
               THEN /\ inflight' = (inflight \ {h}) \cup {[h EXCEPT !.pc = "create"]}
                    /\ emitted' = {}
                    /\ last' = [Label("join", "get", h.sock, h.sid, h.uid)
                                   EXCEPT !.tgt = "creating"]
               ELSE /\ inflight' = inflight \ {h}
                    /\ emitted' = Deliver({Ev(h.sock, "session-not-found", h.sid, h.uid, 0)}, live)
                    /\ last' = [Label("join", "get", h.sock, h.sid, h.uid)
                                   EXCEPT !.tgt = "not-found", !.ok = FALSE]
            /\ UNCHANGED <<db, activeSessionsInMemory, rooms, timers, pendingJoinRequests>>
       ELSE JoinProceed(h, db)
    /\ UNCHANGED <<live, nextSock, sockUser, socketIdToSessionInfo, activeUserSockets,
                   sessionDeletionTimeouts, nextTimer, eventsLeft, clients>>
    /\ RoundTripStep

\* resume after await createOrUpdateMongoSession(...)
JoinCreate(h, outcome) ==
    /\ h \in inflight /\ h.op = "join" /\ h.pc = "create"
    /\ outcome \in DbOutcomes
    /\ dbFailures' = DbCount(outcome)
    /\ IF outcome = "fail"
       THEN /\ emitted' = Deliver({[Ev(h.sock, "join-failed", h.sid, h.uid, 0)
                                     EXCEPT !.msg = "create-error"]}, live)
            /\ last' = [Label("join", "create", h.sock, h.sid, h.uid)
                           EXCEPT !.tgt = "create-error", !.ok = FALSE]
            /\ inflight' = inflight \ {h}
            /\ UNCHANGED <<db, activeSessionsInMemory, rooms, timers, pendingJoinRequests>>
       ELSE JoinProceed(h, CreateOrUpdateMongoSession(db, h.sid, h, h.uid))
    /\ UNCHANGED <<live, nextSock, sockUser, socketIdToSessionInfo, activeUserSockets,
                   sessionDeletionTimeouts, nextTimer, eventsLeft, clients>>
    /\ RoundTripStep

\* resume after await addParticipantToMongoSession(sessionId, joiningUserId)
JoinAdd(h, outcome) ==
    /\ h \in inflight /\ h.op = "join" /\ h.pc = "add"
    /\ outcome \in DbOutcomes
    /\ dbFailures' = DbCount(outcome)
    /\ IF outcome = "fail"
       THEN /\ inflight' = inflight \ {h}
            /\ last' = [Label("join", "add", h.sock, h.sid, h.uid) EXCEPT !.ok = FALSE]
            /\ UNCHANGED <<db, activeSessionsInMemory, rooms>>
       ELSE LET r == JoinPermStep(activeSessionsInMemory, h)
            IN /\ db' = AddParticipantToMongoSession(db, h.sid, h.uid)
               /\ activeSessionsInMemory' = r.cache
               /\ rooms' = r.rooms
               /\ inflight' = (inflight \ {h}) \cup {r.h}
               /\ last' = Label("join", "add", h.sock, h.sid, h.uid)
    /\ emitted' = {}
    /\ UNCHANGED <<live, nextSock, sockUser, socketIdToSessionInfo, activeUserSockets,
                   pendingJoinRequests, sessionDeletionTimeouts, timers, nextTimer,
                   eventsLeft, clients>>
    /\ RoundTripStep

\* resume after await updateSessionInMongoDB(sessionId, {drawingPermissions})
JoinPerm(h, outcome) ==
    /\ h \in inflight /\ h.op = "join" /\ h.pc = "perm"
    /\ outcome \in DbOutcomes
    /\ dbFailures' = DbCount(outcome)
    /\ IF outcome = "fail"
       THEN /\ inflight' = inflight \ {h}
            /\ last' = [Label("join", "perm", h.sock, h.sid, h.uid) EXCEPT !.ok = FALSE]
            /\ UNCHANGED <<db, rooms>>
       ELSE /\ db' = UpdateField(db, h.sid, "drawingPermissions", h.perms)
            /\ rooms' = Join(rooms, h.sock, h.sid)
            /\ inflight' = (inflight \ {h}) \cup {[h EXCEPT !.pc = "detail"]}
            /\ last' = Label("join", "perm", h.sock, h.sid, h.uid)
    /\ emitted' = {}
    /\ UNCHANGED <<live, nextSock, sockUser, activeSessionsInMemory,
                   socketIdToSessionInfo, activeUserSockets, pendingJoinRequests,
                   sessionDeletionTimeouts, timers, nextTimer, eventsLeft, clients>>
    /\ RoundTripStep

\* resume after await getDetailedParticipants(sessionId): session-state to the
\* joiner and user-joined to the others
JoinDetailHandler(h, outcome) ==
    /\ h \in inflight /\ h.op = "join" /\ h.pc = "detail"
    /\ outcome \in DbOutcomes
    /\ dbFailures' = DbCount(outcome)
    /\ inflight' = inflight \ {h}
    /\ IF outcome = "fail"
       THEN /\ emitted' = {}
            /\ last' = [Label("join", "detail", h.sock, h.sid, h.uid) EXCEPT !.ok = FALSE]
       ELSE LET st == activeSessionsInMemory[h.sid] IN
            /\ emitted' = Deliver(
                   {SessionState(h.sock, h.sid, st, db)}
                   \cup (IF h.isNew
                         THEN ToOthers(rooms, h.sock, h.sid, "user-joined", h.uid,
                                       Len(st.participants), "")
                         ELSE {}), live)
            /\ last' = [Label("join", "done", h.sock, h.sid, h.uid)
                           EXCEPT !.tgt = IF h.isNew THEN "joined" ELSE "rejoined"]
    /\ UNCHANGED <<live, nextSock, sockUser, rooms, activeSessionsInMemory,
                   socketIdToSessionInfo, activeUserSockets, pendingJoinRequests,
                   sessionDeletionTimeouts, timers, nextTimer, db, eventsLeft>>
    /\ RoundTripStep

\* join-session to its end, the pages behind the sockets left aside
JoinDetail(h, outcome) ==
    JoinDetailHandler(h, outcome) /\ UNCHANGED clients

\* ---------------------------------------------------------------- approve / reject
\* approve-join-request from the permission default on
ApprovePermStep(cache, h) ==
    LET st == cache[h.sid] IN
    IF h.tgt \in DOMAIN st.drawingPermissions
    THEN [cache |-> cache, rooms |-> Join(rooms, h.tsock, h.sid),
          h |-> [h EXCEPT !.pc = "detail"]]
    ELSE LET perms == Put(st.drawingPermissions, h.tgt, h.tgt = st.ownerId)
         IN [cache |-> [cache EXCEPT ![h.sid].drawingPermissions = perms],
             rooms |-> rooms,
             h |-> [h EXCEPT !.pc = "perm", !.perms = perms]]

ApproveJoinRequest(sk, sid, rid, rsock) ==
    /\ sk \in live
    /\ ClientStep
    /\ LET lbl == [Label("approve", "start", sk, sid, RequestingUserId(sk))
                      EXCEPT !.tgt = rid]
       IN
       IF \/ NotOwner(sk, sid)
          \/ NoPendingRequest(sid, rid)
       THEN /\ last' = [lbl EXCEPT !.ok = FALSE]
            /\ UNCHANGED <<pendingJoinRequests, activeSessionsInMemory, rooms,
                           inflight, timers>>
       ELSE /\ pendingJoinRequests' = Del(pendingJoinRequests, <<sid, rid>>)
            /\ IF rsock \notin live
               THEN /\ last' = [lbl EXCEPT !.ok = FALSE]
                    /\ UNCHANGED <<activeSessionsInMemory, rooms, inflight, timers>>
               ELSE LET st == activeSessionsInMemory[sid]
                        isNew == rid \notin SetOf(st.participants)
                        h == [H("approve", "add", sk, sid, RequestingUserId(sk))
                                 EXCEPT !.tgt = rid, !.tsock = rsock, !.isNew = isNew]
                        r == ApprovePermStep(activeSessionsInMemory, h)
                    IN /\ CanSpawn
                       /\ last' = lbl
                       /\ timers' = MarkRejoin(timers, sid)
                       /\ IF isNew
                          THEN /\ activeSessionsInMemory' =
                                      [activeSessionsInMemory EXCEPT
                                          ![sid].participants = Append(@, rid)]
                               /\ inflight' = inflight \cup {h}
                               /\ UNCHANGED rooms
                          ELSE /\ activeSessionsInMemory' = r.cache
                               /\ rooms' = r.rooms
                               /\ inflight' = inflight \cup {r.h}
    /\ emitted' = {}
    /\ Count
    /\ UNCHANGED clients
    /\ UNCHANGED <<live, nextSock, sockUser, socketIdToSessionInfo, activeUserSockets,
                   sessionDeletionTimeouts, nextTimer, db, dbFailures>>
    /\ RoundTripStep

\* resume after await addParticipantToMongoSession(sessionId, requesterId)
ApproveAdd(h, outcome) ==
    /\ h \in inflight /\ h.op = "approve" /\ h.pc = "add"
    /\ outcome \in DbOutcomes
    /\ dbFailures' = DbCount(outcome)
    /\ IF outcome = "fail"
       THEN /\ inflight' = inflight \ {h}
            /\ last' = [Label("approve", "add", h.sock, h.sid, h.uid)
                           EXCEPT !.tgt = h.tgt, !.ok = FALSE]
            /\ UNCHANGED <<db, activeSessionsInMemory, rooms>>
       ELSE LET r == ApprovePermStep(activeSessionsInMemory, h)
            IN /\ db' = AddParticipantToMongoSession(db, h.sid, h.tgt)
               /\ activeSessionsInMemory' = r.cache
               /\ rooms' = r.rooms
               /\ inflight' = (inflight \ {h}) \cup {r.h}
               /\ last' = [Label("approve", "add", h.sock, h.sid, h.uid)
                              EXCEPT !.tgt = h.tgt]
    /\ emitted' = {}
    /\ UNCHANGED <<live, nextSock, sockUser, socketIdToSessionInfo, activeUserSockets,
                   pendingJoinRequests, sessionDeletionTimeouts, timers, nextTimer,
                   eventsLeft, clients>>
    /\ RoundTripStep

\* resume after await updateSessionInMongoDB(sessionId, {drawingPermissions})
ApprovePerm(h, outcome) ==
    /\ h \in inflight /\ h.op = "approve" /\ h.pc = "perm"
    /\ outcome \in DbOutcomes
    /\ dbFailures' = DbCount(outcome)
    /\ IF outcome = "fail"
       THEN /\ inflight' = inflight \ {h}
            /\ last' = [Label("approve", "perm", h.sock, h.sid, h.uid)
                           EXCEPT !.tgt = h.tgt, !.ok = FALSE]
            /\ UNCHANGED <<db, rooms>>
       ELSE /\ db' = UpdateField(db, h.sid, "drawingPermissions", h.perms)
            /\ rooms' = Join(rooms, h.tsock, h.sid)
            /\ inflight' = (inflight \ {h}) \cup {[h EXCEPT !.pc = "detail"]}
            /\ last' = [Label("approve", "perm", h.sock, h.sid, h.uid)
                           EXCEPT !.tgt = h.tgt]
    /\ emitted' = {}
    /\ UNCHANGED <<live, nextSock, sockUser, activeSessionsInMemory,
                   socketIdToSessionInfo, activeUserSockets, pendingJoinRequests,
                   sessionDeletionTimeouts, timers, nextTimer, eventsLeft, clients>>
    /\ RoundTripStep

\* resume after await getDetailedParticipants(sessionId)
ApproveDetail(h, outcome) ==
    /\ h \in inflight /\ h.op = "approve" /\ h.pc = "detail"
    /\ outcome \in DbOutcomes
    /\ dbFailures' = DbCount(outcome)
    /\ inflight' = inflight \ {h}
    /\ IF outcome = "fail"
       THEN /\ emitted' = {}
            /\ last' = [Label("approve", "detail", h.sock, h.sid, h.uid)
                           EXCEPT !.tgt = h.tgt, !.ok = FALSE]
       ELSE LET st == activeSessionsInMemory[h.sid] IN
            /\ emitted' = Deliver(
                   {SessionState(h.tsock, h.sid, st, db),
                    Ev(h.tsock, "join-approved", h.sid, h.tgt, 0)}
                   \cup ToRoom(rooms, h.sid, "user-joined", h.tgt,
                               Len(st.participants), ""), live)
            /\ last' = [Label("approve", "done", h.sock, h.sid, h.uid)
                           EXCEPT !.tgt = h.tgt]
    /\ UNCHANGED <<live, nextSock, sockUser, rooms, activeSessionsInMemory,
                   socketIdToSessionInfo, activeUserSockets, pendingJoinRequests,
                   sessionDeletionTimeouts, timers, nextTimer, db, eventsLeft, clients>>
    /\ RoundTripStep

RejectJoinRequest(sk, sid, rid, rsock) ==
    /\ sk \in live
    /\ ClientStep
    /\ LET lbl == [Label("reject", "done", sk, sid, RequestingUserId(sk))
                      EXCEPT !.tgt = rid]
       IN
       IF \/ NotOwner(sk, sid)
          \/ NoPendingRequest(sid, rid)
       THEN /\ last' = [lbl EXCEPT !.ok = FALSE]
            /\ emitted' = {}
            /\ UNCHANGED pendingJoinRequests
       ELSE /\ pendingJoinRequests' = Del(pendingJoinRequests, <<sid, rid>>)
            /\ emitted' = Deliver({Ev(rsock, "join-rejected", sid, rid, 0)}, live)
            /\ last' = lbl
    /\ Count
    /\ UNCHANGED clients
    /\ UNCHANGED <<live, nextSock, sockUser, rooms, activeSessionsInMemory,
                   socketIdToSessionInfo, activeUserSockets, sessionDeletionTimeouts,
                   timers, nextTimer, db, inflight, dbFailures>>
    /\ RoundTripStep

\* ---------------------------------------------------------------- kick-participant
\* steps 4-6 of kick-participant: room leave, notices, user-left, cleanup
KickFinish(h, cache) ==
    LET st == cache[h.sid]
        socketsToKick == SocketsToKick(h.sid, h.tgt)
        rooms1 == [rooms EXCEPT ![h.sid] = @ \ socketsToKick]
        count == Len(st.participants)
    IN /\ rooms' = rooms1
       /\ emitted' = Deliver(
              {Ev(s, "you-were-kicked", h.sid, h.tgt, 0) : s \in socketsToKick}
              \cup ToRoom(rooms1, h.sid, "user-left", h.tgt, count, st.ownerId), live)
       /\ CleanupStep(h.sid, count)
       /\ inflight' = inflight \ {h}
       /\ last' = [Label("kick", "done", h.sock, h.sid, h.uid)
                      EXCEPT !.tgt = h.tgt, !.before = h.before]

\* a kick that is refused for the owner alone
KickRefusedForOwnerOnly(sid, tgt) == tgt = activeSessionsInMemory[sid].ownerId

\* targetUserId === sessionState.ownerId, or not in sessionState.participants
KickRefused(sid, tgt) ==
    \/ tgt = activeSessionsInMemory[sid].ownerId
    \/ tgt \notin SetOf(activeSessionsInMemory[sid].participants)

KickParticipant(sk, sid, tgt) ==
    /\ sk \in live
    /\ ClientStep
    /\ LET lbl == [Label("kick", "start", sk, sid, RequestingUserId(sk))
                      EXCEPT !.tgt = tgt]
       IN
       IF NotOwner(sk, sid)
       THEN /\ last' = [lbl EXCEPT !.ok = FALSE, !.pc = "denied"]
            /\ emitted' = {}
            /\ UNCHANGED <<activeSessionsInMemory, inflight>>
       ELSE IF KickRefused(sid, tgt)
       THEN /\ last' = [lbl EXCEPT !.ok = FALSE, !.pc = "failed"]
            /\ emitted' = Deliver({Ev(sk, "kick-failed", sid, tgt, 0)}, live)
            /\ UNCHANGED <<activeSessionsInMemory, inflight>>
       ELSE /\ CanSpawn
            /\ activeSessionsInMemory' =
                   [activeSessionsInMemory EXCEPT ![sid].participants = DelPart(@, tgt)]
            /\ inflight' = inflight \cup
                   {[H("kick", "remove", sk, sid, RequestingUserId(sk))
                        EXCEPT !.tgt = tgt,
                               !.before = Len(activeSessionsInMemory[sid].participants)]}
            /\ last' = lbl
            /\ emitted' = {}
    /\ Count
    /\ UNCHANGED clients
    /\ UNCHANGED <<live, nextSock, sockUser, rooms, socketIdToSessionInfo,
                   activeUserSockets, pendingJoinRequests, sessionDeletionTimeouts,
                   timers, nextTimer, db, dbFailures>>
    /\ RoundTripStep

\* resume after await removeParticipantFromMongoSession(sessionId, targetUserId)
KickRemove(h, outcome) ==
    /\ h \in inflight /\ h.op = "kick" /\ h.pc = "remove"
    /\ outcome \in DbOutcomes
    /\ dbFailures' = DbCount(outcome)
    /\ IF outcome = "fail"
       THEN /\ inflight' = inflight \ {h}
            /\ emitted' = {}
            /\ last' = [Label("kick", "remove", h.sock, h.sid, h.uid)
                           EXCEPT !.tgt = h.tgt, !.ok = FALSE]
            /\ UNCHANGED <<db, activeSessionsInMemory, rooms, timers,
                           sessionDeletionTimeouts, nextTimer>>
       ELSE /\ db' = RemoveParticipantFromMongoSession(db, h.sid, h.tgt)
            /\ IF NeedsNewOwner(activeSessionsInMemory[h.sid], h.tgt)
               THEN LET st == Reassign(activeSessionsInMemory[h.sid]) IN
                    /\ activeSessionsInMemory' =
                           [activeSessionsInMemory EXCEPT ![h.sid] = st]
                    /\ inflight' = (inflight \ {h}) \cup
                           {[h EXCEPT !.pc = "update", !.owner = st.ownerId,
                                      !.perms = st.drawingPermissions]}
                    /\ emitted' = {}
                    /\ last' = [Label("kick", "remove", h.sock, h.sid, h.uid)
                                   EXCEPT !.tgt = h.tgt]
                    /\ UNCHANGED <<rooms, timers, sessionDeletionTimeouts, nextTimer>>
               ELSE /\ KickFinish(h, activeSessionsInMemory)
                    /\ UNCHANGED activeSessionsInMemory
    /\ UNCHANGED <<live, nextSock, sockUser, socketIdToSessionInfo, activeUserSockets,
                   pendingJoinRequests, eventsLeft, clients>>
    /\ RoundTripStep

\* resume after await updateSessionInMongoDB(sessionId, {host, drawingPermissions})
KickUpdate(h, outcome) ==
    /\ h \in inflight /\ h.op = "kick" /\ h.pc = "update"
    /\ outcome \in DbOutcomes
    /\ dbFailures' = DbCount(outcome)
    /\ IF outcome = "fail"
       THEN /\ inflight' = inflight \ {h}
            /\ emitted' = {}
            /\ last' = [Label("kick", "update", h.sock, h.sid, h.uid)
                           EXCEPT !.tgt = h.tgt, !.ok = FALSE]
            /\ UNCHANGED <<db, rooms, timers, sessionDeletionTimeouts, nextTimer>>
       ELSE /\ db' = UpdateField(UpdateField(db, h.sid, "host", h.owner),
                                 h.sid, "drawingPermissions", h.perms)
            /\ KickFinish(h, activeSessionsInMemory)
    /\ UNCHANGED <<live, nextSock, sockUser, activeSessionsInMemory,
                   socketIdToSessionInfo, activeUserSockets, pendingJoinRequests,
                   eventsLeft, clients>>
    /\ RoundTripStep

\* ---------------------------------------------------------------- whiteboard
\* the permission check of whiteboard-point, on the payload's userId
\* a permission gate that lets every author through
MayDrawAnyone(st, u) == TRUE
MayDraw(st, u) == st.ownerId = u \/ Truthy(st.drawingPermissions, u)

WhiteboardPointAs(sk, sid, pts, isEnd, payloadUsers) ==
    /\ sk \in live
    /\ ClientStep
    /\ \E u \in payloadUsers :
       LET lbl == [Label("point", "start", sk, sid, u)
                      EXCEPT !.tgt = IF isEnd THEN "end" ELSE "more"]
       IN
       IF \/ sid \notin DOMAIN activeSessionsInMemory
          \/ ~MayDraw(activeSessionsInMemory[sid], u)
       THEN /\ last' = [lbl EXCEPT !.ok = FALSE]
            /\ emitted' = {}
            /\ UNCHANGED <<activeSessionsInMemory, inflight>>
       ELSE /\ emitted' = Deliver(
                   {[e EXCEPT !.strokes = <<pts>>, !.msg = lbl.tgt] :
                       e \in ToOthers(rooms, sk, sid, "whiteboard-point", u, 0, "")}, live)
            /\ last' = lbl
            /\ IF isEnd
               THEN LET strokes == Append(activeSessionsInMemory[sid].whiteboardStrokes, pts)
                    IN /\ Len(strokes) <= MaxStrokes
                       /\ CanSpawn
                       /\ activeSessionsInMemory' =
                              [activeSessionsInMemory EXCEPT ![sid].whiteboardStrokes = strokes]
                       /\ inflight' = inflight \cup
                              {[H("point", "save", sk, sid, u) EXCEPT !.strokes = strokes]}
               ELSE UNCHANGED <<activeSessionsInMemory, inflight>>
    /\ Count
    /\ UNCHANGED <<live, nextSock, sockUser, rooms, socketIdToSessionInfo,
                   activeUserSockets, pendingJoinRequests, sessionDeletionTimeouts,
                   timers, nextTimer, db, dbFailures>>
    /\ RoundTripStep

\* whiteboard-point sent by the page: the payload names its own user
WhiteboardPointHandler(sk, sid, pts, isEnd) ==
    WhiteboardPointAs(sk, sid, pts, isEnd, PayloadUsers(sk))

\* whiteboard-point, the pages behind the sockets left aside
WhiteboardPoint(sk, sid, pts, isEnd) ==
    WhiteboardPointHandler(sk, sid, pts, isEnd) /\ UNCHANGED clients

WhiteboardUpdateHandler(sk, sid, strokes) ==
    /\ sk \in live
    /\ ClientStep
    /\ LET lbl == Label("update", "start", sk, sid, RequestingUserId(sk)) IN
       IF NotOwner(sk, sid)
       THEN /\ last' = [lbl EXCEPT !.ok = FALSE, !.pc = "denied"]
            /\ UNCHANGED <<activeSessionsInMemory, inflight>>
       ELSE /\ CanSpawn
            /\ activeSessionsInMemory' =
                   [activeSessionsInMemory EXCEPT ![sid].whiteboardStrokes = strokes]
            /\ inflight' = inflight \cup
                   {[H("update", "save", sk, sid, RequestingUserId(sk))
                        EXCEPT !.strokes = strokes]}
            /\ last' = lbl
    /\ emitted' = {}
    /\ Count
    /\ UNCHANGED <<live, nextSock, sockUser, rooms, socketIdToSessionInfo,
                   activeUserSockets, pendingJoinRequests, sessionDeletionTimeouts,
                   timers, nextTimer, db, dbFailures>>
    /\ RoundTripStep

\* whiteboard-update, the pages behind the sockets left aside
WhiteboardUpdate(sk, sid, strokes) ==
    WhiteboardUpdateHandler(sk, sid, strokes) /\ UNCHANGED clients

\* resume after await updateSessionInMongoDB(sessionId, {whiteboardStrokes}) of
\* whiteboard-point (nothing follows) and whiteboard-update (broadcast follows)
StrokesSavedHandler(h, outcome) ==
    /\ h \in inflight /\ h.op \in {"point", "update"} /\ h.pc = "save"
    /\ outcome \in DbOutcomes
    /\ dbFailures' = DbCount(outcome)
    /\ inflight' = inflight \ {h}
    /\ IF outcome = "fail"
       THEN /\ emitted' = {}
            /\ last' = [Label(h.op, "save", h.sock, h.sid, h.uid) EXCEPT !.ok = FALSE]
            /\ UNCHANGED db
       ELSE /\ db' = UpdateField(db, h.sid, "whiteboardStrokes", h.strokes)
            /\ emitted' =
                   IF h.op = "update"
                   THEN Deliver({[e EXCEPT !.strokes = h.strokes] :
                                    e \in ToOthers(rooms, h.sock, h.sid,
                                                   "whiteboard-update", "", 0, "")}, live)
                   ELSE {}
            /\ last' = Label(h.op, "done", h.sock, h.sid, h.uid)
    /\ UNCHANGED <<live, nextSock, sockUser, rooms, activeSessionsInMemory,
                   socketIdToSessionInfo, activeUserSockets, pendingJoinRequests,
                   sessionDeletionTimeouts, timers, nextTimer, eventsLeft>>
    /\ RoundTripStep

\* the stroke log written, the pages behind the sockets left aside
StrokesSaved(h, outcome) ==
    StrokesSavedHandler(h, outcome) /\ UNCHANGED clients

\* ---------------------------------------------------------------- permissions
SetPermission(st, tgt, has) ==
    [st EXCEPT !.drawingPermissions = Put(@, tgt, has)]
GrantAll(st) ==
    [st EXCEPT !.drawingPermissions =
        [u \in (DOMAIN @) \cup SetOf(st.participants) \cup {st.ownerId} |->
            IF u \in SetOf(st.participants) \cup {st.ownerId} THEN TRUE ELSE @[u]]]
\* a revoke-all that spares nobody
RevokeAllOwnerToo(st) ==
    [st EXCEPT !.drawingPermissions =
        [u \in SetOf(st.participants) \cup {st.ownerId} |-> FALSE]]
RevokeAll(st) ==
    [st EXCEPT !.drawingPermissions =
        [u \in SetOf(st.participants) \cup {st.ownerId} |-> u = st.ownerId]]

\* set-drawing-permission, grant-all-drawing-permissions and
\* revoke-all-drawing-permissions up to their await
PermissionCommand(sk, sid, cmd, tgt, has) ==
    /\ sk \in live
    /\ ClientStep
    /\ LET lbl == [Label(cmd, "start", sk, sid, RequestingUserId(sk)) EXCEPT !.tgt = tgt] IN
       IF NotOwner(sk, sid)
       THEN /\ last' = [lbl EXCEPT !.ok = FALSE, !.pc = "denied"]
            /\ UNCHANGED <<activeSessionsInMemory, inflight>>
       ELSE LET st == activeSessionsInMemory[sid]
                st1 == CASE cmd = "set-permission" -> SetPermission(st, tgt, has)
                         [] cmd = "grant-all" -> GrantAll(st)
                         [] cmd = "revoke-all" -> RevokeAll(st)
            IN /\ CanSpawn
               /\ activeSessionsInMemory' = [activeSessionsInMemory EXCEPT ![sid] = st1]
               /\ inflight' = inflight \cup
                      {[H(cmd, "save", sk, sid, RequestingUserId(sk))
                           EXCEPT !.perms = st1.drawingPermissions]}
               /\ last' = lbl
    /\ emitted' = {}
    /\ Count
    /\ UNCHANGED clients
    /\ UNCHANGED <<live, nextSock, sockUser, rooms, socketIdToSessionInfo,
                   activeUserSockets, pendingJoinRequests, sessionDeletionTimeouts,
                   timers, nextTimer, db, dbFailures>>
    /\ RoundTripStep

SetDrawingPermission(sk, sid, tgt, has) ==
    PermissionCommand(sk, sid, "set-permission", tgt, has)
GrantAllDrawingPermissions(sk, sid) ==
    PermissionCommand(sk, sid, "grant-all", "", TRUE)
RevokeAllDrawingPermissions(sk, sid) ==
    PermissionCommand(sk, sid, "revoke-all", "", FALSE)

\* resume after await updateSessionInMongoDB(sessionId, {drawingPermissions}):
\* broadcast drawing-permissions-updated to the room
PermissionsSaved(h, outcome) ==
    /\ h \in inflight /\ h.op \in {"set-permission", "grant-all", "revoke-all"}
    /\ h.pc = "save"
    /\ outcome \in DbOutcomes
    /\ dbFailures' = DbCount(outcome)
    /\ inflight' = inflight \ {h}
    /\ IF outcome = "fail"
       THEN /\ emitted' = {}
            /\ last' = [Label(h.op, "save", h.sock, h.sid, h.uid) EXCEPT !.ok = FALSE]
            /\ UNCHANGED db
       ELSE /\ db' = UpdateField(db, h.sid, "drawingPermissions", h.perms)
            /\ emitted' = Deliver(
                   {[e EXCEPT !.perms = activeSessionsInMemory[h.sid].drawingPermissions] :
                       e \in ToRoom(rooms, h.sid, "drawing-permissions-updated", "", 0, "")},
                   live)
            /\ last' = Label(h.op, "done", h.sock, h.sid, h.uid)
    /\ UNCHANGED <<live, nextSock, sockUser, rooms, activeSessionsInMemory,
                   socketIdToSessionInfo, activeUserSockets, pendingJoinRequests,
                   sessionDeletionTimeouts, timers, nextTimer, eventsLeft, clients>>
    /\ RoundTripStep

\* ---------------------------------------------------------------- chat-message
\* chat-message up to its await: the message is pushed on the cached log
ChatMessage(sk, sid, m) ==
    /\ sk \in live
    /\ ClientStep
    /\ LET lbl == [Label("chat", "start", sk, sid, sockUser[sk]) EXCEPT !.tgt = m] IN
       IF sid \notin DOMAIN activeSessionsInMemory
       THEN /\ last' = [lbl EXCEPT !.ok = FALSE]
            /\ UNCHANGED <<activeSessionsInMemory, inflight>>
       ELSE LET messages == Append(activeSessionsInMemory[sid].messages, m) IN
            /\ Len(messages) <= MaxMessages
            /\ CanSpawn
            /\ activeSessionsInMemory' =
                   [activeSessionsInMemory EXCEPT ![sid].messages = messages]
            /\ inflight' = inflight \cup
                   {[H("chat", "save", sk, sid, sockUser[sk])
                        EXCEPT !.messages = messages, !.tgt = m]}
            /\ last' = lbl
    /\ emitted' = {}
    /\ Count
    /\ UNCHANGED clients
    /\ UNCHANGED <<live, nextSock, sockUser, rooms, socketIdToSessionInfo,
                   activeUserSockets, pendingJoinRequests, sessionDeletionTimeouts,
                   timers, nextTimer, db, dbFailures>>
    /\ RoundTripStep

\* resume after await updateSessionInMongoDB(sessionId, {messages}): broadcast
\* to the room but the sender
ChatSaved(h, outcome) ==
    /\ h \in inflight /\ h.op = "chat" /\ h.pc = "save"
    /\ outcome \in DbOutcomes
    /\ dbFailures' = DbCount(outcome)
    /\ inflight' = inflight \ {h}
    /\ IF outcome = "fail"
       THEN /\ emitted' = {}
            /\ last' = [Label("chat", "save", h.sock, h.sid, h.uid)
                           EXCEPT !.tgt = h.tgt, !.ok = FALSE]
            /\ UNCHANGED db
       ELSE /\ db' = UpdateField(db, h.sid, "messages", h.messages)
            /\ emitted' = Deliver({[e EXCEPT !.msg = h.tgt] :
                                     e \in ToOthers(rooms, h.sock, h.sid,
                                                    "chat-message", h.uid, 0, "")}, live)
            /\ last' = [Label("chat", "done", h.sock, h.sid, h.uid) EXCEPT !.tgt = h.tgt]
    /\ UNCHANGED <<live, nextSock, sockUser, rooms, activeSessionsInMemory,
                   socketIdToSessionInfo, activeUserSockets, pendingJoinRequests,
                   sessionDeletionTimeouts, timers, nextTimer, eventsLeft, clients>>
    /\ RoundTripStep

\* ---------------------------------------------------------------- user-leave-session
\* user-leave-session from the registry removal on
LeaveFinish(h, cache) ==
    LET st == cache[h.sid]
        count == Len(st.participants)
    IN /\ socketIdToSessionInfo' = Del(socketIdToSessionInfo, h.sock)
       /\ activeUserSockets' =
              IF h.uid \in DOMAIN activeUserSockets /\ activeUserSockets[h.uid] = h.sock
              THEN Del(activeUserSockets, h.uid) ELSE activeUserSockets
       /\ emitted' = Deliver(ToOthers(rooms, h.sock, h.sid, "user-left", h.uid,
                                      count, st.ownerId), live)
       /\ CleanupStep(h.sid, count)
       /\ rooms' = [rooms EXCEPT ![h.sid] = @ \ {h.sock}]
       /\ inflight' = inflight \ {h}
       /\ last' = Label("leave", "done", h.sock, h.sid, h.uid)

UserLeaveSessionAs(sk, sid, payloadUsers) ==
    /\ sk \in live
    /\ ClientStep
    /\ \E u \in payloadUsers :
       IF sid \in DOMAIN activeSessionsInMemory
       THEN /\ pendingJoinRequests' = Del(pendingJoinRequests, <<sid, u>>)
            /\ IF u \in SetOf(activeSessionsInMemory[sid].participants)
               THEN /\ CanSpawn
                    /\ activeSessionsInMemory' =
                           [activeSessionsInMemory EXCEPT
                               ![sid].participants = DelPart(@, u)]
                    /\ inflight' = inflight \cup {H("leave", "remove", sk, sid, u)}
                    /\ last' = Label("leave", "start", sk, sid, u)
                    /\ UNCHANGED rooms
               ELSE /\ rooms' = [rooms EXCEPT ![sid] = @ \ {sk}]
                    /\ last' = [Label("leave", "start", sk, sid, u) EXCEPT !.ok = FALSE]
                    /\ UNCHANGED <<activeSessionsInMemory, inflight>>
       ELSE /\ rooms' = [rooms EXCEPT ![sid] = @ \ {sk}]
            /\ last' = [Label("leave", "start", sk, sid, u) EXCEPT !.ok = FALSE]
            /\ UNCHANGED <<pendingJoinRequests, activeSessionsInMemory, inflight>>
    /\ emitted' = {}
    /\ Count
    /\ UNCHANGED clients
    /\ UNCHANGED <<live, nextSock, sockUser, socketIdToSessionInfo, activeUserSockets,
                   sessionDeletionTimeouts, timers, nextTimer, db, dbFailures>>
    /\ RoundTripStep

\* user-leave-session sent by the page: the payload names its own user
UserLeaveSession(sk, sid) == UserLeaveSessionAs(sk, sid, PayloadUsers(sk))

\* resume after await removeParticipantFromMongoSession(sessionId, userId)
LeaveRemove(h, outcome) ==
    /\ h \in inflight /\ h.op = "leave" /\ h.pc = "remove"
    /\ outcome \in DbOutcomes
    /\ dbFailures' = DbCount(outcome)
    /\ IF outcome = "fail"
       THEN /\ inflight' = inflight \ {h}
            /\ emitted' = {}
            /\ last' = [Label("leave", "remove", h.sock, h.sid, h.uid) EXCEPT !.ok = FALSE]
            /\ UNCHANGED <<db, activeSessionsInMemory, rooms, timers,
                           sessionDeletionTimeouts, nextTimer, socketIdToSessionInfo,
                           activeUserSockets>>
       ELSE /\ db' = RemoveParticipantFromMongoSession(db, h.sid, h.uid)
            /\ IF NeedsNewOwner(activeSessionsInMemory[h.sid], h.uid)
               THEN LET st == Reassign(activeSessionsInMemory[h.sid]) IN
                    /\ activeSessionsInMemory' =
                           [activeSessionsInMemory EXCEPT ![h.sid] = st]
                    /\ inflight' = (inflight \ {h}) \cup
                           {[h EXCEPT !.pc = "update", !.owner = st.ownerId,
                                      !.perms = st.drawingPermissions]}
                    /\ emitted' = {}
                    /\ last' = Label("leave", "remove", h.sock, h.sid, h.uid)
                    /\ UNCHANGED <<rooms, timers, sessionDeletionTimeouts, nextTimer,
                                   socketIdToSessionInfo, activeUserSockets>>
               ELSE /\ LeaveFinish(h, activeSessionsInMemory)
                    /\ UNCHANGED activeSessionsInMemory
    /\ UNCHANGED <<live, nextSock, sockUser, pendingJoinRequests, eventsLeft, clients>>
    /\ RoundTripStep

\* resume after await updateSessionInMongoDB(sessionId, {host, drawingPermissions})
LeaveUpdate(h, outcome) ==
    /\ h \in inflight /\ h.op = "leave" /\ h.pc = "update"
    /\ outcome \in DbOutcomes
    /\ dbFailures' = DbCount(outcome)
    /\ IF outcome = "fail"
       THEN /\ inflight' = inflight \ {h}
            /\ emitted' = {}
            /\ last' = [Label("leave", "update", h.sock, h.sid, h.uid) EXCEPT !.ok = FALSE]
            /\ UNCHANGED <<db, rooms, timers, sessionDeletionTimeouts, nextTimer,
                           socketIdToSessionInfo, activeUserSockets>>
       ELSE /\ db' = UpdateField(UpdateField(db, h.sid, "host", h.owner),
                                 h.sid, "drawingPermissions", h.perms)
            /\ LeaveFinish(h, activeSessionsInMemory)
    /\ UNCHANGED <<live, nextSock, sockUser, activeSessionsInMemory,
                   pendingJoinRequests, eventsLeft, clients>>
    /\ RoundTripStep

\* ---------------------------------------------------------------- disconnect
\* disconnect from the user-left broadcast on
DisconnectFinish(h, cache) ==
    LET st == cache[h.sid]
        count == Len(st.participants)
    IN /\ emitted' = Deliver(ToRoom(rooms, h.sid, "user-left", h.uid, count,
                                    st.ownerId), live)
       /\ CleanupStep(h.sid, count)
       /\ socketIdToSessionInfo' = Del(socketIdToSessionInfo, h.sock)
       /\ inflight' = inflight \ {h}
       /\ last' = Label("disconnect", "done", h.sock, h.sid, h.uid)

\* the client closes its socket: socket.io removes the socket from its rooms
\* and from the server's socket table, then runs the 'disconnect' handler
Disconnect(sk) ==
    /\ sk \in live
    /\ ClientStep
    /\ live' = live \ {sk}
    /\ rooms' = Leave(rooms, sk)
    /\ IF sk \notin DOMAIN socketIdToSessionInfo
       THEN /\ last' = [Label("disconnect", "start", sk, "", sockUser[sk]) EXCEPT !.ok = FALSE]
            /\ UNCHANGED <<pendingJoinRequests, activeUserSockets, activeSessionsInMemory,
                           socketIdToSessionInfo, inflight>>
       ELSE LET u == Info(sk).userId
                sid == Info(sk).sessionId
                remaining == {s \in live \ {sk} : Bound(s, sid, u)}
            IN /\ pendingJoinRequests' = Del(pendingJoinRequests, <<sid, u>>)
               /\ activeUserSockets' =
                      IF u \in DOMAIN activeUserSockets /\ activeUserSockets[u] = sk
                      THEN Del(activeUserSockets, u) ELSE activeUserSockets
               /\ last' = Label("disconnect", "start", sk, sid, u)
               /\ IF sid \in DOMAIN activeSessionsInMemory /\ remaining = {}
                  THEN /\ CanSpawn
                       /\ activeSessionsInMemory' =
                              [activeSessionsInMemory EXCEPT
                                  ![sid].participants = DelPart(@, u)]
                       /\ inflight' = inflight \cup {H("disconnect", "remove", sk, sid, u)}
                       /\ UNCHANGED socketIdToSessionInfo
                  ELSE /\ socketIdToSessionInfo' = Del(socketIdToSessionInfo, sk)
                       /\ UNCHANGED <<activeSessionsInMemory, inflight>>
    /\ emitted' = {}
    /\ Count
    /\ UNCHANGED clients
    /\ UNCHANGED <<nextSock, sockUser, sessionDeletionTimeouts, timers, nextTimer,
                   db, dbFailures>>
    /\ RoundTripStep

\* resume after await removeParticipantFromMongoSession(...)
DisconnectRemove(h, outcome) ==
    /\ h \in inflight /\ h.op = "disconnect" /\ h.pc = "remove"
    /\ outcome \in DbOutcomes
    /\ dbFailures' = DbCount(outcome)
    /\ IF outcome = "fail"
       THEN /\ inflight' = inflight \ {h}
            /\ emitted' = {}
            /\ last' = [Label("disconnect", "remove", h.sock, h.sid, h.uid)
                           EXCEPT !.ok = FALSE]
            /\ UNCHANGED <<db, activeSessionsInMemory, timers, sessionDeletionTimeouts,
                           nextTimer, socketIdToSessionInfo>>
       ELSE /\ db' = RemoveParticipantFromMongoSession(db, h.sid, h.uid)
            /\ IF NeedsNewOwner(activeSessionsInMemory[h.sid], h.uid)
               THEN LET st == Reassign(activeSessionsInMemory[h.sid]) IN
                    /\ activeSessionsInMemory' =
                           [activeSessionsInMemory EXCEPT ![h.sid] = st]
                    /\ inflight' = (inflight \ {h}) \cup
                           {[h EXCEPT !.pc = "update", !.owner = st.ownerId,
                                      !.perms = st.drawingPermissions]}
                    /\ emitted' = {}
                    /\ last' = Label("disconnect", "remove", h.sock, h.sid, h.uid)
                    /\ UNCHANGED <<timers, sessionDeletionTimeouts, nextTimer,
                                   socketIdToSessionInfo>>
               ELSE /\ DisconnectFinish(h, activeSessionsInMemory)
                    /\ UNCHANGED activeSessionsInMemory
    /\ UNCHANGED <<live, nextSock, sockUser, rooms, activeUserSockets,
                   pendingJoinRequests, eventsLeft, clients>>
    /\ RoundTripStep

\* resume after await updateSessionInMongoDB(..., {host, drawingPermissions})
DisconnectUpdate(h, outcome) ==
    /\ h \in inflight /\ h.op = "disconnect" /\ h.pc = "update"
    /\ outcome \in DbOutcomes
    /\ dbFailures' = DbCount(outcome)
    /\ IF outcome = "fail"
       THEN /\ inflight' = inflight \ {h}
            /\ emitted' = {}
            /\ last' = [Label("disconnect", "update", h.sock, h.sid, h.uid)
                           EXCEPT !.ok = FALSE]
            /\ UNCHANGED <<db, timers, sessionDeletionTimeouts, nextTimer,
                           socketIdToSessionInfo>>
       ELSE /\ db' = UpdateField(UpdateField(db, h.sid, "host", h.owner),
                                 h.sid, "drawingPermissions", h.perms)
            /\ DisconnectFinish(h, activeSessionsInMemory)
    /\ UNCHANGED <<live, nextSock, sockUser, rooms, activeSessionsInMemory,
                   activeUserSockets, pendingJoinRequests, eventsLeft, clients>>
    /\ RoundTripStep

\* ---------------------------------------------------------------- cleanup timer
\* Timers share one delay, so they expire in the order they were armed.  The
\* grace delay is minutes and a store call at most seconds: a timer does not
\* expire while a handler that holds the session's state is suspended.
OldestTimer(t) == t \in timers /\ \A o \in timers : t.id <= o.id

TimerFire(t) ==
    /\ OldestTimer(t)
    /\ \A h \in inflight : ~HoldsState(h, t.sid)
    /\ timers' = timers \ {t}
    /\ LET count == IF t.sid \in DOMAIN activeSessionsInMemory
                    THEN Len(activeSessionsInMemory[t.sid].participants) ELSE 0
       IN IF count = 0
          THEN /\ CanSpawn
               /\ activeSessionsInMemory' = Del(activeSessionsInMemory, t.sid)
               /\ sessionDeletionTimeouts' = Del(sessionDeletionTimeouts, t.sid)
               /\ inflight' = inflight \cup
                      {[H("timer", "delete", 0, t.sid, "") EXCEPT !.stale = t.stale]}
               /\ last' = [Label("timer", "fire", t.id, t.sid, "") EXCEPT !.ok = ~t.stale]
          ELSE /\ last' = [Label("timer", "skip", t.id, t.sid, "") EXCEPT !.ok = ~t.stale]
               /\ UNCHANGED <<activeSessionsInMemory, sessionDeletionTimeouts, inflight>>
    /\ emitted' = {}
    /\ UNCHANGED <<live, nextSock, sockUser, rooms, socketIdToSessionInfo,
                   activeUserSockets, pendingJoinRequests, nextTimer, db, eventsLeft, clients,
                   dbFailures>>
    /\ RoundTripStep

\* resume after await deleteMongoSession(sessionId); a failure is caught and logged
TimerDelete(h, outcome) ==
    /\ h \in inflight /\ h.op = "timer" /\ h.pc = "delete"
    /\ outcome \in DbOutcomes
    /\ dbFailures' = DbCount(outcome)
    /\ inflight' = inflight \ {h}
    /\ db' = IF outcome = "ok" THEN DeleteMongoSession(db, h.sid) ELSE db
    /\ last' = [Label("timer", "delete", 0, h.sid, "")
                   EXCEPT !.ok = (outcome = "ok"), !.tgt = IF h.stale THEN "stale" ELSE "fresh"]
    /\ emitted' = {}
    /\ UNCHANGED <<live, nextSock, sockUser, rooms, activeSessionsInMemory,
                   socketIdToSessionInfo, activeUserSockets, pendingJoinRequests,
                   sessionDeletionTimeouts, timers, nextTimer, eventsLeft, clients>>
    /\ RoundTripStep

\* ---------------------------------------------------------------- specification
\* the socket id an owner passes with approve/reject: the one it was notified with
RequesterSockets(sid, rid) ==
    IF <<sid, rid>> \in DOMAIN pendingJoinRequests
    THEN {pendingJoinRequests[<<sid, rid>>]} ELSE {1}

ServerNext(Outcomes) ==
    \/ \E u \in Users : Connect(u)
    \/ \E sk \in SocketIds : Disconnect(sk)
    \/ \E sk \in SocketIds, sid \in Sessions, inp \in JoinInputs : JoinSession(sk, sid, inp)
    \/ \E h \in inflight, o \in Outcomes : JoinGet(h, o)
    \/ \E h \in inflight, o \in Outcomes : JoinCreate(h, o)
    \/ \E h \in inflight, o \in Outcomes : JoinAdd(h, o)
    \/ \E h \in inflight, o \in Outcomes : JoinPerm(h, o)
    \/ \E h \in inflight, o \in Outcomes : JoinDetail(h, o)
    \/ \E sk \in SocketIds, sid \in Sessions, rid \in Users :
          \E rs \in RequesterSockets(sid, rid) :
          ApproveJoinRequest(sk, sid, rid, rs)
    \/ \E h \in inflight, o \in Outcomes : ApproveAdd(h, o)
    \/ \E h \in inflight, o \in Outcomes : ApprovePerm(h, o)
    \/ \E h \in inflight, o \in Outcomes : ApproveDetail(h, o)
    \/ \E sk \in SocketIds, sid \in Sessions, rid \in Users :
          \E rs \in RequesterSockets(sid, rid) :
          RejectJoinRequest(sk, sid, rid, rs)
    \/ \E sk \in SocketIds, sid \in Sessions, tgt \in Users : KickParticipant(sk, sid, tgt)
    \/ \E h \in inflight, o \in Outcomes : KickRemove(h, o)
    \/ \E sk \in SocketIds, sid \in Sessions, pts \in PointBatches, e \in BOOLEAN :
          WhiteboardPoint(sk, sid, pts, e)
    \/ \E sk \in SocketIds, sid \in Sessions, ss \in StrokeLists : WhiteboardUpdate(sk, sid, ss)
    \/ \E h \in inflight, o \in Outcomes : StrokesSaved(h, o)
    \/ \E sk \in SocketIds, sid \in Sessions, tgt \in Users, has \in BOOLEAN :
          SetDrawingPermission(sk, sid, tgt, has)
    \/ \E sk \in SocketIds, sid \in Sessions : GrantAllDrawingPermissions(sk, sid)
    \/ \E sk \in SocketIds, sid \in Sessions : RevokeAllDrawingPermissions(sk, sid)
    \/ \E h \in inflight, o \in Outcomes : PermissionsSaved(h, o)
    \/ \E sk \in SocketIds, sid \in Sessions : UserLeaveSession(sk, sid)
    \/ \E h \in inflight, o \in Outcomes : LeaveRemove(h, o)
    \/ \E h \in inflight, o \in Outcomes : LeaveUpdate(h, o)
    \/ \E h \in inflight, o \in Outcomes : DisconnectRemove(h, o)
    \/ \E h \in inflight, o \in Outcomes : DisconnectUpdate(h, o)
    \/ \E t \in timers : TimerFire(t)
    \/ \E h \in inflight, o \in Outcomes : TimerDelete(h, o)

\* the store answers every call
Next == ServerNext({"ok"})
Spec == Init /\ [][Next]_vars

\* the store may fail a call for good (retries exhausted)
NextF == ServerNext({"ok", "fail"})
SpecF == Init /\ [][NextF]_vars

PublicCreate == [name |-> TRUE, priv |-> FALSE, key |-> NoKey]

\* ---------------------------------------------------------------- Session page
\* The page behind a socket (frontend Session.js and Whiteboard.js). A point
\* names its socket, the number of the stroke on that page and its place in
\* the stroke. Events from the server reach the page in the step that emits
\* them.
Point(sk, s, k) == [sock |-> sk, stroke |-> s, k |-> k]
PointEvent(sid, pts, isEnd) ==
    [ev |-> "whiteboard-point", sid |-> sid, pts |-> pts, strokes |-> << >>,
     isEnd |-> isEnd]
UpdateEvent(sid, strokes) ==
    [ev |-> "whiteboard-update", sid |-> sid, pts |-> << >>, strokes |-> strokes,
     isEnd |-> FALSE]

\* socket.on('session-state')
HandleSessionState(c, sk, e) ==
    [c EXCEPT !.sessionId = e.sid,
              !.whiteboardData = e.strokes,
              !.canDraw = (e.owner = sockUser[sk]) \/ Truthy(e.perms, sockUser[sk]),
              !.liveStrokes = EmptyFn]
\* handleWhiteboardUpdate
HandleWhiteboardUpdate(c, e) ==
    [c EXCEPT !.whiteboardData = e.strokes, !.liveStrokes = EmptyFn]
\* handleWhiteboardPoint
HandleWhiteboardPoint(c, sk, e) ==
    LET existingLiveStroke ==
            IF e.uid \in DOMAIN c.liveStrokes THEN c.liveStrokes[e.uid] ELSE << >>
        points == e.strokes[1]
    IN IF e.uid = sockUser[sk] THEN c
       ELSE IF e.msg = "end"
       THEN [c EXCEPT !.whiteboardData = Append(@, existingLiveStroke \o points),
                      !.liveStrokes = Del(@, e.uid)]
       ELSE [c EXCEPT !.liveStrokes = Put(@, e.uid, existingLiveStroke \o points)]

PageEvents == {"session-state", "whiteboard-update", "whiteboard-point"}
Handle(c, sk, e) ==
    IF e.ev = "session-state" THEN HandleSessionState(c, sk, e)
    ELSE IF e.ev = "whiteboard-update" THEN HandleWhiteboardUpdate(c, e)
    ELSE HandleWhiteboardPoint(c, sk, e)
\* the pages after the events of this step have reached them
Received(cs, evs) ==
    [sk \in SocketIds |->
        IF \E e \in evs : e.to = sk /\ e.ev \in PageEvents
        THEN Handle(cs[sk], sk, CHOOSE e \in evs : e.to = sk /\ e.ev \in PageEvents)
        ELSE cs[sk]]

RECURSIVE Pending(_)
\* events written to sockets and not yet taken by the server
Pending(S) ==
    IF S = {} THEN 0
    ELSE LET sk == CHOOSE x \in S : TRUE IN Len(clients[sk].out) + Pending(S \ {sk})

\* a step of a page alone
PageStep(sk, c, what) ==
    /\ clients' = [clients EXCEPT ![sk] = c]
    /\ last' = Label("page", what, sk, c.sessionId, sockUser[sk])
    /\ emitted' = {}
    /\ UNCHANGED <<live, nextSock, sockUser, rooms, activeSessionsInMemory,
                   socketIdToSessionInfo, activeUserSockets, pendingJoinRequests,
                   sessionDeletionTimeouts, timers, nextTimer, db, inflight,
                   eventsLeft, dbFailures>>
    /\ RoundTripStep

\* Whiteboard.js startDrawing
StartDrawing(sk) ==
    LET c == clients[sk]
        point == Point(sk, c.strokesDrawn + 1, 1)
    IN /\ sk \in live
       /\ c.canDraw
       /\ c.currentStroke = << >>
       /\ c.strokesDrawn < MaxStrokes
       /\ Pending(SocketIds) + 3 <= eventsLeft
       /\ PageStep(sk, [c EXCEPT !.currentStroke = <<point>>,
                                 !.out = Append(@, PointEvent(c.sessionId, <<point>>, FALSE))],
                   "startDrawing")

\* Whiteboard.js draw
Draw(sk) ==
    LET c == clients[sk]
        point == Point(sk, c.strokesDrawn + 1, Len(c.currentStroke) + 1)
    IN /\ sk \in live
       /\ c.canDraw
       /\ c.currentStroke # << >>
       /\ Len(c.currentStroke) < MaxPoints
       /\ Pending(SocketIds) + 3 <= eventsLeft
       /\ PageStep(sk, [c EXCEPT !.currentStroke = Append(@, point),
                                 !.out = Append(@, PointEvent(c.sessionId, <<point>>, FALSE))],
                   "draw")

\* Whiteboard.js endDrawing: onChange(newStrokes) is handleWhiteboardChange,
\* then emitDrawingPoint(currentStroke, true)
EndDrawing(sk) ==
    LET c == clients[sk]
        newStrokes == Append(c.whiteboardData, c.currentStroke)
    IN /\ sk \in live
       /\ c.canDraw
       /\ c.currentStroke # << >>
       /\ PageStep(sk, [c EXCEPT !.whiteboardData = newStrokes,
                                 !.currentStroke = << >>,
                                 !.strokesDrawn = @ + 1,
                                 !.out = @ \o <<UpdateEvent(c.sessionId, newStrokes),
                                                PointEvent(c.sessionId, c.currentStroke, TRUE)>>],
                   "endDrawing")

\* the server takes the next event a page wrote to its socket
Receive(sk) ==
    LET e == Head(clients[sk].out)
        rest == [clients EXCEPT ![sk].out = Tail(@)]
    IN /\ clients[sk].out # << >>
       /\ IF e.ev = "whiteboard-point"
          THEN WhiteboardPointHandler(sk, e.sid, e.pts, e.isEnd)
          ELSE WhiteboardUpdateHandler(sk, e.sid, e.strokes)
       /\ clients' = Received(rest, emitted')

\* join-session to its end and session-state reaching the page
JoinDetailPage(h) == JoinDetailHandler(h, "ok") /\ clients' = Received(clients, emitted')
\* the stroke log written and whiteboard-update reaching the other pages
StrokesSavedPage(h) == StrokesSavedHandler(h, "ok") /\ clients' = Received(clients, emitted')

\* pages drawing on a public session
StrokeNext ==
    \/ \E u \in Users : Connect(u)
    \/ \E sk \in SocketIds, sid \in Sessions : JoinSession(sk, sid, PublicCreate)
    \/ \E h \in inflight : JoinGet(h, "ok")
    \/ \E h \in inflight : JoinCreate(h, "ok")
    \/ \E h \in inflight : JoinAdd(h, "ok")
    \/ \E h \in inflight : JoinPerm(h, "ok")
    \/ \E h \in inflight : JoinDetailPage(h)
    \/ \E sk \in SocketIds : StartDrawing(sk)
    \/ \E sk \in SocketIds : Draw(sk)
    \/ \E sk \in SocketIds : EndDrawing(sk)
    \/ \E sk \in SocketIds : Receive(sk)
    \/ \E h \in inflight : StrokesSavedPage(h)
InitStroke == Start(MaxStrokeEvents)
SpecStroke == InitStroke /\ [][StrokeNext]_vars

\* a public session with members joining, leaving and being kicked, followed
\* further than Spec goes: the owner hand-over inside kick-participant needs
\* the kicked user to rejoin and the owner to leave while the kick is suspended
KickNext ==
    \/ \E u \in Users : Connect(u)
    \/ \E sk \in SocketIds, sid \in Sessions : JoinSession(sk, sid, PublicCreate)
    \/ \E h \in inflight : JoinGet(h, "ok")
    \/ \E h \in inflight : JoinCreate(h, "ok")
    \/ \E h \in inflight : JoinAdd(h, "ok")
    \/ \E h \in inflight : JoinPerm(h, "ok")
    \/ \E h \in inflight : JoinDetail(h, "ok")
    \/ \E sk \in SocketIds, sid \in Sessions, tgt \in Users : KickParticipant(sk, sid, tgt)
    \/ \E h \in inflight : KickRemove(h, "ok")
    \/ \E h \in inflight : KickUpdate(h, "ok")
    \/ \E sk \in SocketIds, sid \in Sessions : UserLeaveSession(sk, sid)
    \/ \E h \in inflight : LeaveRemove(h, "ok")
    \/ \E h \in inflight : LeaveUpdate(h, "ok")
    \/ \E t \in timers : TimerFire(t)
    \/ \E h \in inflight : TimerDelete(h, "ok")
InitKick == Start(MaxKickEvents)
SpecKick == InitKick /\ [][KickNext]_vars

\* a public session drawn on, emptied and joined again, the store failing at
\* most the deletion that follows the grace timer: the durable record then
\* outlives the cache entry and the next join hydrates from it
RoundNext ==
    \/ \E u \in Users : Connect(u)
    \/ \E sk \in SocketIds, sid \in Sessions : JoinSession(sk, sid, PublicCreate)
    \/ \E h \in inflight : JoinGet(h, "ok")
    \/ \E h \in inflight : JoinCreate(h, "ok")
    \/ \E h \in inflight : JoinAdd(h, "ok")
    \/ \E h \in inflight : JoinPerm(h, "ok")
    \/ \E h \in inflight : JoinDetail(h, "ok")
    \/ \E sk \in SocketIds, sid \in Sessions, pts \in PointBatches, e \in BOOLEAN :
          WhiteboardPoint(sk, sid, pts, e)
    \/ \E sk \in SocketIds, sid \in Sessions, ss \in StrokeLists : WhiteboardUpdate(sk, sid, ss)
    \/ \E h \in inflight : StrokesSaved(h, "ok")
    \/ \E sk \in SocketIds, sid \in Sessions : UserLeaveSession(sk, sid)
    \/ \E h \in inflight : LeaveRemove(h, "ok")
    \/ \E h \in inflight : LeaveUpdate(h, "ok")
    \/ \E t \in timers : TimerFire(t)
    \/ \E h \in inflight, o \in {"ok", "fail"} : TimerDelete(h, o)
InitRound == Start(MaxRoundEvents)
SpecRound == InitRound /\ [][RoundNext]_vars

\* ---------------------------------------------------------------- properties
Cache == activeSessionsInMemory
Quiet == inflight = {}

\* C1: in every reachable state, every cached session has
\* drawingPermissions[ownerId] = true.
C1_OwnerAlwaysMayDraw ==
    \A s \in DOMAIN Cache : Truthy(Cache[s].drawingPermissions, Cache[s].ownerId)

LiveChannels(u) == {sk \in live : sockUser[sk] = u}

\* C2: in every reachable state each userId has at most one live channel,
\* also after a user left a session with the channel kept open and connected
\* a second time.
C2_OneLiveChannelPerUser ==
    \A u \in Users : Cardinality(LiveChannels(u)) <= 1

\* the step is the server taking one client event
ClientEvent == eventsLeft' = eventsLeft - 1

\* the step is the host of private session last'.sid sending approve for a
\* requester other than itself whose request is pending on a live socket
HostApprovesPending ==
    /\ ClientEvent
    /\ last'.op = "approve" /\ last'.pc = "start"
    /\ last'.sid \in DOMAIN db
    /\ db[last'.sid].isPrivate
    /\ db[last'.sid].host = last'.uid
    /\ last'.tgt # last'.uid
    /\ <<last'.sid, last'.tgt>> \in DOMAIN pendingJoinRequests
    /\ pendingJoinRequests[<<last'.sid, last'.tgt>>] \in live

\* C3: when the owner who created a private session sends approve for a user
\* whose join is awaiting approval, that user becomes a participant of the
\* session.
C3_ApproveAdmitsRequester ==
    [][HostApprovesPending =>
          /\ last'.sid \in DOMAIN activeSessionsInMemory'
          /\ last'.tgt \in SetOf(activeSessionsInMemory'[last'.sid].participants)]_vars

\* the last step was a cleanup timer, armed before a later (re)join of its
\* session, deleting the cache entry resp. the durable record
StaleTimerDeletedCache == last.op = "timer" /\ last.pc = "fire" /\ ~last.ok
StaleTimerDeletedRecord ==
    last.op = "timer" /\ last.pc = "delete" /\ last.tgt = "stale" /\ last.ok

\* C4: once a user has rejoined an emptied session, no deletion timer armed
\* before that rejoin ever deletes the session's cache entry or durable record,
\* also when the session empties again later.
C4_RejoinDisarmsDeletion ==
    ~StaleTimerDeletedCache /\ ~StaleTimerDeletedRecord

\* a log entry holding the points of one stroke of one page, once and in order
WholeStroke(st) ==
    /\ Len(st) > 0
    /\ \A i \in 1..Len(st) : st[i] = Point(st[1].sock, st[1].stroke, i)
SameStroke(a, b) == a[1].sock = b[1].sock /\ a[1].stroke = b[1].stroke

\* C5: every stroke a page draws and sends (point batches, then at stroke end
\* whiteboard-update with the full list and whiteboard-point with isEnd) is in
\* the session's stroke log as one entry, with its points once and in send
\* order.
C5_StrokeLoggedOnce ==
    \A sid \in DOMAIN Cache :
        LET log == Cache[sid].whiteboardStrokes IN
        /\ \A i \in 1..Len(log) : WholeStroke(log[i])
        /\ \A i, j \in 1..Len(log) : i < j => ~SameStroke(log[i], log[j])

\* the last step refused a join for its key, or for naming no session
JoinRefused == last.op = "join" /\ last.tgt \in {"invalid-key", "not-found"}

\* C6: a join with a wrong or missing key is answered alike whether the id
\* names a private session or no session at all: the requester gets the
\* invalid-key failure in both cases.
C6_SameFailureWithOrWithoutSession ==
    JoinRefused =>
        \A e \in emitted :
            e.to = last.sock => e.ev = "join-failed" /\ e.msg = "invalid-key"

\* the step is join-session finding the session public
PublicDecision ==
    /\ last'.op = "join" /\ last'.pc \in {"get", "create"} /\ last'.ok
    /\ last'.sid \in DOMAIN db'
    /\ ~db'[last'.sid].isPrivate
\* join-session handlers of public sessions that reach the given await in this step
JoinsReaching(pc) ==
    {h \in inflight' \ inflight : h.op = "join" /\ h.pc = pc /\ ~h.docPrivate}
AwaitingSent(evs) == \E e \in evs : e.ev = "join-awaiting-approval"
SessionStateSent(evs, sk) == \E e \in evs : e.ev = "session-state" /\ e.to = sk

\* C7 (as the code has it): a join to a public session never creates a pending
\* request and never sends join-awaiting-approval; the joiner is a participant
\* from the step that finds the session public; a joiner without a permission
\* entry gets the entry true when the default is applied; its channel, if
\* connected, is put in the room before the snapshot is fetched and is sent
\* session-state when the handler completes.
C7_PublicJoinAdmitsDirectly ==
    [][/\ PublicDecision =>
             /\ pendingJoinRequests' = pendingJoinRequests
             /\ ~AwaitingSent(emitted')
             /\ last'.uid \in SetOf(activeSessionsInMemory'[last'.sid].participants)
       /\ \A h \in JoinsReaching("perm") :
             Truthy(activeSessionsInMemory'[h.sid].drawingPermissions, h.uid)
       /\ \A h \in JoinsReaching("detail") :
             h.sock \in live => h.sock \in rooms'[h.sid]
       /\ (last'.op = "join" /\ last'.pc = "done" /\ last'.sock \in live) =>
             SessionStateSent(emitted', last'.sock)]_vars

\* a user other than the owner completed a first join of a public session as
\* participant, in the room, with session-state and permission to draw
C7_Witness ==
    /\ last.op = "join" /\ last.pc = "done" /\ last.tgt = "joined"
    /\ last.sid \in DOMAIN Cache
    /\ Cache[last.sid].ownerId # last.uid
    /\ last.uid \in SetOf(Cache[last.sid].participants)
    /\ last.sock \in rooms[last.sid]
    /\ SessionStateSent(emitted, last.sock)
    /\ Truthy(Cache[last.sid].drawingPermissions, last.uid)

\* C7 (as claimed): whenever a first join of a public session completes, the
\* joiner is a participant, its channel is in the room and its drawing
\* permission is true.
C7_JoinerMayDrawAtCompletion ==
    (last.op = "join" /\ last.pc = "done" /\ last.tgt = "joined"
        /\ last.sid \in DOMAIN Cache /\ last.sock \in live) =>
       /\ last.uid \in SetOf(Cache[last.sid].participants)
       /\ last.sock \in rooms[last.sid]
       /\ Truthy(Cache[last.sid].drawingPermissions, last.uid)

\* the last step completed a join of a session whose stroke list was last set
\* by a whiteboard-update, and sent session-state
JoinAfterUpdate ==
    /\ last.op = "join" /\ last.pc = "done"
    /\ last.sid \in DOMAIN roundTrip
    /\ SessionStateSent(emitted, last.sock)
SnapshotCarries(strokes) ==
    \A e \in emitted : e.ev = "session-state" => e.strokes = strokes

KickAccepted ==
    /\ last'.op = "kick" /\ last'.pc = "start" /\ last'.ok
    /\ eventsLeft' # eventsLeft
KickDone == last.op = "kick" /\ last.pc = "done"
Kicked(evs, sk, sid, u) ==
    \E e \in evs : e.ev = "you-were-kicked" /\ e.to = sk /\ e.sid = sid /\ e.uid = u
UserLeft(evs, sk, sid, u, n) ==
    \E e \in evs : /\ e.ev = "user-left" /\ e.to = sk /\ e.sid = sid
                   /\ e.uid = u /\ e.n = n

OwnerOnlyCommands == {"kick", "update", "set-permission", "grant-all", "revoke-all"}
\* the last step refused an owner-only command of a sender who is not the owner
OwnerCommandDenied ==
    /\ last.op \in OwnerOnlyCommands
    /\ last.pc = "denied"
    /\ last.sock \in live
    /\ last.sid \in DOMAIN activeSessionsInMemory
    /\ activeSessionsInMemory[last.sid].ownerId # last.uid

\* C10: an owner-only command (kick-participant, whiteboard-update,
\* set-drawing-permission, grant-all, revoke-all) from a channel whose user is
\* not the owner of the session is answered with a failure event to the sender.
C10_OwnerOnlyDenialIsAnswered ==
    OwnerCommandDenied => \E e \in emitted : e.to = last.sock

\* ---- owner-only commands from a non-owner
OwnerGuardedCommands == OwnerOnlyCommands \cup {"approve", "reject"}
\* the step is the server taking an owner-only command for an existing session
\* from a channel whose user is not the owner of that session
NonOwnerCommand ==
    /\ ClientEvent
    /\ last'.op \in OwnerGuardedCommands
    /\ last'.sid \in DOMAIN activeSessionsInMemory
    /\ activeSessionsInMemory[last'.sid].ownerId # last'.uid

\* C11: kick-participant, approve-join-request, reject-join-request,
\* whiteboard-update, set-drawing-permission, grant-all and revoke-all from a
\* channel whose user is not the owner of the session leave the cache entry
\* (participants, ownerId, drawingPermissions, stroke log), the durable
\* records, the pending-request table and the rooms unchanged, start no
\* handler that would change them later and send no event.
C11_NonOwnerCommandHasNoEffect ==
    [][NonOwnerCommand =>
          /\ activeSessionsInMemory' = activeSessionsInMemory
          /\ pendingJoinRequests' = pendingJoinRequests
          /\ db' = db
          /\ rooms' = rooms
          /\ inflight' = inflight
          /\ emitted' = {}]_vars

\* a participant holding draw permission, not the owner, had a whole-canvas
\* replace refused
C11_Witness ==
    /\ last.op = "update" /\ last.pc = "denied"
    /\ last.sid \in DOMAIN activeSessionsInMemory
    /\ activeSessionsInMemory[last.sid].ownerId # last.uid
    /\ last.uid \in SetOf(activeSessionsInMemory[last.sid].participants)
    /\ Truthy(activeSessionsInMemory[last.sid].drawingPermissions, last.uid)

\* ---- private join of a participant
\* the step decides the join of a user who is a participant in the durable
\* record of private session last'.sid and gave the right key
PrivateDecisionOfParticipant ==
    /\ last'.op = "join" /\ last'.pc \in {"get", "create"}
    /\ last'.tgt \notin {"invalid-key", "not-found", "fetch-error", "create-error"}
    /\ last'.sid \in DOMAIN db'
    /\ db'[last'.sid].isPrivate
    /\ last'.uid \in SetOf(db'[last'.sid].participants)

\* C12: a user who is already a participant of a private session (its creator
\* at auto-create time included) and joins with the correct key is admitted
\* directly: no pending request is filed, no join-awaiting-approval and no
\* failure is sent, and the join goes on to the room and the snapshot.
C12_ParticipantOfPrivateSessionAdmitted ==
    [][PrivateDecisionOfParticipant =>
          /\ pendingJoinRequests' = pendingJoinRequests
          /\ ~AwaitingSent(emitted')
          /\ last'.tgt = "admitted"]_vars

\* ---- reconnect eviction
\* the step is a connection of last'.uid that evicts the user's previous
\* channel, the last one bound to a session the cache holds
EvictsLastChannel ==
    /\ last'.op = "connect" /\ last'.ok
    /\ last'.sid \in DOMAIN activeSessionsInMemory
    /\ last'.uid \in SetOf(activeSessionsInMemory[last'.sid].participants)
    /\ last'.uid \notin SetOf(activeSessionsInMemory'[last'.sid].participants)
\* a leave of session sid by user u is under way after the step
LeaveUnderWay(sid, u) ==
    \E h \in inflight' \ inflight : h.sid = sid /\ h.uid = u

\* C13: a connection that evicts the user's last channel bound to a session
\* has the full effect of a leave of that session: the user is removed from
\* the participants in the cache and (at once, or by a removal then under
\* way) in the durable record, ownership moves on if the user was the owner
\* and participants remain, and the cleanup timer is armed if none remain.
C13_EvictionIsALeave ==
    [][EvictsLastChannel =>
          LET sid == last'.sid
              u == last'.uid
              st == activeSessionsInMemory'[sid]
          IN \/ LeaveUnderWay(sid, u)
             \/ /\ sid \in DOMAIN db' => u \notin SetOf(db'[sid].participants)
                /\ Len(st.participants) > 0 => st.ownerId # u
                /\ Len(st.participants) = 0 => sid \in DOMAIN sessionDeletionTimeouts']_vars

\* ---- cleanup of empty sessions
\* a step of the server that no client causes: a handler resuming after an
\* await, or a timer callback
ServerStep == Next /\ eventsLeft' = eventsLeft
\* the event loop runs every resumed handler and every expired timer, and the
\* store answers every call
SpecLive == Init /\ [][Next]_vars /\ WF_vars(ServerStep)

EmptySession(sid) ==
    /\ sid \in DOMAIN activeSessionsInMemory
    /\ Len(activeSessionsInMemory[sid].participants) = 0
Rejoined(sid) ==
    /\ sid \in DOMAIN activeSessionsInMemory
    /\ Len(activeSessionsInMemory[sid].participants) > 0
Deleted(sid) == sid \notin DOMAIN activeSessionsInMemory /\ sid \notin DOMAIN db

\* C14: whenever the participants of a session in the cache are down to none,
\* by whatever removal, then somebody rejoins or the cache entry and the
\* durable record of the session are eventually both deleted.
C14_EmptySessionIsCleanedUp ==
    \A sid \in Sessions : EmptySession(sid) ~> (Rejoined(sid) \/ Deleted(sid))

\* ---- purge of pending requests
\* the channels that went away in the step: the one that disconnected, or the
\* one a new connection of the same user evicted
ChannelsGone ==
    IF last'.op = "disconnect" /\ last'.pc = "start" THEN {last'.sock}
    ELSE IF last'.op = "connect" /\ last'.ok THEN {activeUserSockets[last'.uid]}
    ELSE {}
\* the step is the server taking user-leave-session
LeaveSent == ClientEvent /\ last'.op = "leave" /\ last'.pc = "start"

\* C15: once the channel a pending join request was filed on has disconnected,
\* by itself or evicted by a reconnect, and once the requester has sent
\* user-leave-session for the session, with or without a cache entry of that
\* session, the pending table holds no entry for that request.
C15_PendingPurgedOnDisconnectAndLeave ==
    [][/\ \A k \in DOMAIN pendingJoinRequests' :
              pendingJoinRequests'[k] \notin ChannelsGone
       /\ LeaveSent =>
              <<last'.sid, last'.uid>> \notin DOMAIN pendingJoinRequests']_vars

\* ---- private join while the owner is away
MaxOwnerEvents == 6
PrivateCreate == [name |-> TRUE, priv |-> TRUE, key |-> "K1"]
\* connections, disconnections and joins of a private session
OwnerNext ==
    \/ \E u \in Users : Connect(u)
    \/ \E sk \in SocketIds : Disconnect(sk)
    \/ \E sk \in SocketIds, sid \in Sessions : JoinSession(sk, sid, PrivateCreate)
    \/ \E h \in inflight : JoinGet(h, "ok")
    \/ \E h \in inflight : JoinCreate(h, "ok")
InitOwner == Start(MaxOwnerEvents)
SpecOwner == InitOwner /\ [][OwnerNext]_vars

\* the step decides a join with the right key of private session last'.sid
\* whose owner has no connected channel
PrivateDecisionOwnerAway ==
    /\ last'.op = "join" /\ last'.pc \in {"get", "create"}
    /\ last'.tgt \in {"awaiting", "owner-offline"}
    /\ LiveChannels(db'[last'.sid].host) = {}

\* C16: a join with the right key of a private session whose owner has no
\* live channel is answered with the owner-offline failure; when the handler
\* completes no pending request of the requester exists and the requester is
\* neither a participant nor in the room.
C16_OwnerAwayJoinFails ==
    [][PrivateDecisionOwnerAway =>
          /\ last'.tgt = "owner-offline"
          /\ last'.sock \in live =>
                 \E e \in emitted' : /\ e.ev = "join-failed" /\ e.to = last'.sock
                                     /\ e.msg = "owner-offline"
          /\ <<last'.sid, last'.uid>> \notin DOMAIN pendingJoinRequests'
          /\ last'.sock \notin rooms'[last'.sid]
          /\ last'.sid \in DOMAIN activeSessionsInMemory' =>
                 last'.uid \notin SetOf(activeSessionsInMemory'[last'.sid].participants)]_vars

\* ---- approval after a reconnect of the requester
MaxApproveEvents == 6
\* connections, joins that create the session public or private, and approvals
ApproveNext ==
    \/ \E u \in Users : Connect(u)
    \/ \E sk \in SocketIds, sid \in Sessions, inp \in {PublicCreate, PrivateCreate} :
          JoinSession(sk, sid, inp)
    \/ \E h \in inflight : JoinGet(h, "ok")
    \/ \E h \in inflight : JoinCreate(h, "ok")
    \/ \E h \in inflight : JoinAdd(h, "ok")
    \/ \E h \in inflight : JoinPerm(h, "ok")
    \/ \E h \in inflight : JoinDetail(h, "ok")
    \/ \E sk \in SocketIds, sid \in Sessions, rid \in Users :
          \E rs \in RequesterSockets(sid, rid) :
          ApproveJoinRequest(sk, sid, rid, rs)
    \/ \E h \in inflight : ApproveAdd(h, "ok")
    \/ \E h \in inflight : ApprovePerm(h, "ok")
    \/ \E h \in inflight : ApproveDetail(h, "ok")
InitApprove == Start(MaxApproveEvents)
SpecApprove == InitApprove /\ [][ApproveNext]_vars

\* the step is the owner approving a pending request whose requester has
\* since reconnected: the channel the request was filed on is gone and the
\* requester has another live channel
ApprovesReconnected ==
    /\ ClientEvent
    /\ last'.op = "approve"
    /\ ~NotOwner(last'.sock, last'.sid)
    /\ <<last'.sid, last'.tgt>> \in DOMAIN pendingJoinRequests
    /\ pendingJoinRequests[<<last'.sid, last'.tgt>>] \notin live
    /\ LiveChannels(last'.tgt) # {}

\* C17: when the owner approves the pending request of a requester who has
\* reconnected on another channel since filing it, the requester becomes a
\* participant and the approval goes on with the requester's current channel
\* (room join, snapshot, join-approved).
C17_ApprovalToleratesReconnect ==
    [][ApprovesReconnected =>
          /\ last'.tgt \in SetOf(activeSessionsInMemory'[last'.sid].participants)
          /\ \E h \in inflight' \ inflight :
                 /\ h.op = "approve" /\ h.tgt = last'.tgt
                 /\ h.tsock \in LiveChannels(last'.tgt)]_vars

\* ---- approve and reject without a pending request
\* the step is the owner of session last'.sid sending approve or reject
OwnerDecides ==
    /\ ClientEvent
    /\ last'.op \in {"approve", "reject"}
    /\ ~NotOwner(last'.sock, last'.sid)
DecidedKey == <<last'.sid, last'.tgt>>

\* C18: approve-join-request and reject-join-request from the owner for a
\* requester with no pending entry change nothing (cache entry, durable
\* record, rooms, pending table), start no handler and send no event; reject
\* of an existing entry removes that entry alone, changes nothing else and
\* sends nothing but join-rejected to the channel the request was filed on.
C18_DecisionWithoutRequestIsNoOp ==
    [][OwnerDecides =>
          /\ activeSessionsInMemory' = activeSessionsInMemory
             \/ (last'.op = "approve" /\ DecidedKey \in DOMAIN pendingJoinRequests)
          /\ DecidedKey \notin DOMAIN pendingJoinRequests =>
                 /\ pendingJoinRequests' = pendingJoinRequests
                 /\ rooms' = rooms /\ db' = db /\ inflight' = inflight
                 /\ emitted' = {}
          /\ (last'.op = "reject" /\ DecidedKey \in DOMAIN pendingJoinRequests) =>
                 /\ pendingJoinRequests' = Del(pendingJoinRequests, DecidedKey)
                 /\ rooms' = rooms /\ db' = db /\ inflight' = inflight
                 /\ \A e \in emitted' : /\ e.ev = "join-rejected"
                                        /\ e.to = pendingJoinRequests[DecidedKey]]_vars

\* the owner approved a requester other than itself who had no pending request
C18_Witness ==
    /\ last.op = "approve" /\ last.pc = "start" /\ ~last.ok
    /\ ~NotOwner(last.sock, last.sid)
    /\ NoPendingRequest(last.sid, last.tgt)
    /\ last.tgt # last.uid

\* ---- removal of a user from a session
\* the users the step removes from the participants of session last'.sid by
\* leave, kick or last-channel disconnect (none if the step is no removal)
RemovedUsers ==
    IF /\ ClientEvent
       /\ last'.op \in {"leave", "kick", "disconnect"}
       /\ last'.sid \in DOMAIN activeSessionsInMemory
       /\ last'.sid \in DOMAIN activeSessionsInMemory'
    THEN SetOf(activeSessionsInMemory[last'.sid].participants)
             \ SetOf(activeSessionsInMemory'[last'.sid].participants)
    ELSE {}
\* the step is the server taking a draw batch from a user who is no
\* participant of the session
DrawByOutsider ==
    /\ ClientEvent
    /\ last'.op = "point"
    /\ last'.sid \in DOMAIN activeSessionsInMemory
    /\ last'.uid \notin SetOf(activeSessionsInMemory[last'.sid].participants)

\* C19: a user removed from a session by leave, kick or last-channel
\* disconnect has no drawingPermissions entry in the cache once the removal
\* has taken it out of the participants, and a draw batch from a user who is
\* no participant is dropped.
C19_RemovalDeletesPermission ==
    [][/\ \A u \in RemovedUsers :
              u \notin DOMAIN activeSessionsInMemory'[last'.sid].drawingPermissions
       /\ DrawByOutsider =>
              /\ ~last'.ok
              /\ emitted' = {}
              /\ activeSessionsInMemory' = activeSessionsInMemory]_vars

\* ---- grant-all, revoke-all and idempotence
\* the step is the server accepting the given permission command of the owner
PermissionAccepted(cmd) ==
    /\ ClientEvent
    /\ last'.op = cmd /\ last'.pc = "start" /\ last'.ok
\* applying each permission command twice to the cached session gives what
\* applying it once gives
PermissionsIdempotent(st) ==
    /\ GrantAll(GrantAll(st)) = GrantAll(st)
    /\ RevokeAll(RevokeAll(st)) = RevokeAll(st)
    /\ \A tgt \in Users, has \in BOOLEAN :
           SetPermission(SetPermission(st, tgt, has), tgt, has)
               = SetPermission(st, tgt, has)

\* C20: after grant-all by the owner every participant has drawingPermissions
\* true; after revoke-all the owner's entry is true and every other
\* participant's entry is false; set-drawing-permission, grant-all and
\* revoke-all applied twice give the drawingPermissions they give applied
\* once, on every session state the server reaches.
C20_GrantRevokeAndIdempotence ==
    [][/\ PermissionAccepted("grant-all") =>
              LET st == activeSessionsInMemory'[last'.sid] IN
              \A p \in SetOf(st.participants) : Truthy(st.drawingPermissions, p)
       /\ PermissionAccepted("revoke-all") =>
              LET st == activeSessionsInMemory'[last'.sid] IN
              /\ Truthy(st.drawingPermissions, st.ownerId)
              /\ \A p \in SetOf(st.participants) \ {st.ownerId} :
                     /\ p \in DOMAIN st.drawingPermissions
                     /\ ~st.drawingPermissions[p]
       /\ \A sid \in DOMAIN activeSessionsInMemory' :
              PermissionsIdempotent(activeSessionsInMemory'[sid])]_vars

\* the owner's revoke-all was accepted in a session with a second participant
C20_Witness ==
    /\ last.op = "revoke-all" /\ last.pc = "start" /\ last.ok
    /\ last.sid \in DOMAIN activeSessionsInMemory
    /\ Len(activeSessionsInMemory[last.sid].participants) >= 2
    /\ \E p \in SetOf(activeSessionsInMemory[last.sid].participants) :
           ~Truthy(activeSessionsInMemory[last.sid].drawingPermissions, p)

\* ---- draw batches without permission
\* the step is the server taking a whiteboard-point batch for a cached
\* session from an author who is neither its owner nor permitted to draw
DrawWithoutPermission ==
    /\ ClientEvent
    /\ last'.op = "point"
    /\ last'.sid \in DOMAIN activeSessionsInMemory
    /\ activeSessionsInMemory[last'.sid].ownerId # last'.uid
    /\ ~Truthy(activeSessionsInMemory[last'.sid].drawingPermissions, last'.uid)

\* C21: a whiteboard-point batch whose author is neither the owner of the
\* session nor has drawingPermissions true is dropped silently, with or
\* without the end-of-stroke flag: no event is sent to anybody, the cached
\* and the durable stroke logs stay as they are and no write is started.
C21_DeniedBatchIsDropped ==
    [][DrawWithoutPermission =>
          /\ emitted' = {}
          /\ activeSessionsInMemory' = activeSessionsInMemory
          /\ db' = db
          /\ inflight' = inflight]_vars

\* an end-of-stroke batch was refused while another channel was in the room
C21_Witness ==
    /\ last.op = "point" /\ last.tgt = "end" /\ ~last.ok
    /\ last.sid \in DOMAIN activeSessionsInMemory
    /\ ~MayDraw(activeSessionsInMemory[last.sid], last.uid)
    /\ rooms[last.sid] \ {last.sock} # {}

\* ---- sender exclusion
MaxCastEvents == 6
\* connections, public joins, disconnections and the three rebroadcast events
CastNext ==
    \/ \E u \in Users : Connect(u)
    \/ \E sk \in SocketIds : Disconnect(sk)
    \/ \E sk \in SocketIds, sid \in Sessions : JoinSession(sk, sid, PublicCreate)
    \/ \E h \in inflight : JoinGet(h, "ok")
    \/ \E h \in inflight : JoinCreate(h, "ok")
    \/ \E h \in inflight : JoinAdd(h, "ok")
    \/ \E h \in inflight : JoinPerm(h, "ok")
    \/ \E h \in inflight : JoinDetail(h, "ok")
    \/ \E sk \in SocketIds, sid \in Sessions, pts \in PointBatches, e \in BOOLEAN :
          WhiteboardPoint(sk, sid, pts, e)
    \/ \E sk \in SocketIds, sid \in Sessions, ss \in StrokeLists : WhiteboardUpdate(sk, sid, ss)
    \/ \E h \in inflight : StrokesSaved(h, "ok")
    \/ \E sk \in SocketIds, sid \in Sessions, m \in ChatTexts : ChatMessage(sk, sid, m)
    \/ \E h \in inflight : ChatSaved(h, "ok")
    \/ \E h \in inflight : DisconnectRemove(h, "ok")
    \/ \E h \in inflight : DisconnectUpdate(h, "ok")
InitCast == Start(MaxCastEvents)
SpecCast == InitCast /\ [][CastNext]_vars

\* the channels the events of the step went to, and the connected channels of
\* the room of last'.sid other than the sender
Recipients == {e.to : e \in emitted'}
OtherRoomChannels == (rooms'[last'.sid] \ {last'.sock}) \cap live'
\* the step rebroadcasts: a draw batch in the step that accepts it, a
\* whole-canvas replace and a chat message in the step that completes them
PointRebroadcast ==
    ClientEvent /\ last'.op = "point" /\ last'.pc = "start" /\ last'.ok
UpdateRebroadcast == last'.op = "update" /\ last'.pc = "done"
ChatRebroadcast == last'.op = "chat" /\ last'.pc = "done"

\* C22: an accepted whiteboard-point batch, a whiteboard-update and a
\* chat-message go to every other connected channel in the room of the
\* session and never to the sending channel; a draw batch is rebroadcast in
\* the very step that takes it, with its author and its end-of-stroke flag,
\* so the batches of an author go out in the order they arrived.
C22_SenderExcluded ==
    [][/\ PointRebroadcast =>
              /\ Recipients = OtherRoomChannels
              /\ \A e \in emitted' : /\ e.ev = "whiteboard-point"
                                     /\ e.uid = last'.uid /\ e.msg = last'.tgt
       /\ UpdateRebroadcast =>
              /\ Recipients = OtherRoomChannels
              /\ \A e \in emitted' : e.ev = "whiteboard-update"
       /\ ChatRebroadcast =>
              /\ Recipients = OtherRoomChannels
              /\ \A e \in emitted' : e.ev = "chat-message" /\ e.msg = last'.tgt]_vars

\* a chat message of a channel in the room went to another channel
C22_Witness ==
    /\ last.op = "chat" /\ last.pc = "done"
    /\ last.sock \in rooms[last.sid]
    /\ \E e \in emitted : e.ev = "chat-message" /\ e.to # last.sock

\* ---- kicks that are refused
\* the step is the owner of session last'.sid sending kick-participant for
\* itself or for a user who is not a participant
OwnerKicksInVain ==
    /\ ClientEvent
    /\ last'.op = "kick"
    /\ ~NotOwner(last'.sock, last'.sid)
    /\ \/ last'.tgt = activeSessionsInMemory[last'.sid].ownerId
       \/ last'.tgt \notin SetOf(activeSessionsInMemory[last'.sid].participants)

\* C23: kick-participant from the owner for the owner itself, or for a user
\* who is not a participant, is answered with kick-failed to the sender and
\* nothing else; the cache entry, the durable record, the rooms and the
\* cleanup timers stay as they are and no handler is started.
C23_RefusedKickChangesNothing ==
    [][OwnerKicksInVain =>
          /\ emitted' = {Ev(last'.sock, "kick-failed", last'.sid, last'.tgt, 0)}
          /\ activeSessionsInMemory' = activeSessionsInMemory
          /\ db' = db
          /\ rooms' = rooms
          /\ timers' = timers
          /\ sessionDeletionTimeouts' = sessionDeletionTimeouts
          /\ inflight' = inflight]_vars

\* the owner's kick of a connected user who is no participant was refused
C23_Witness ==
    /\ last.op = "kick" /\ last.pc = "failed"
    /\ last.tgt # last.uid
    /\ LiveChannels(last.tgt) # {}
    /\ \E e \in emitted : e.ev = "kick-failed" /\ e.to = last.sock

\* ---- private sessions and their access key
MaxKeyEvents == 4
\* join-session asking for a private session without supplying a key
PrivateNoKey == [name |-> TRUE, priv |-> TRUE, key |-> NoKey]
\* connections and joins that create the session public, private with a key
\* or private without one
KeyNext ==
    \/ \E u \in Users : Connect(u)
    \/ \E sk \in SocketIds, sid \in Sessions,
          inp \in {PublicCreate, PrivateCreate, PrivateNoKey} :
          JoinSession(sk, sid, inp)
    \/ \E h \in inflight : JoinGet(h, "ok")
    \/ \E h \in inflight : JoinCreate(h, "ok")
    \/ \E h \in inflight : JoinAdd(h, "ok")
    \/ \E h \in inflight : JoinPerm(h, "ok")
    \/ \E h \in inflight : JoinDetail(h, "ok")
InitKey == Start(MaxKeyEvents)
SpecKey == InitKey /\ [][KeyNext]_vars

\* the stored record (durable or cached) is private
PrivateRecords(recs) == {sid \in DOMAIN recs : recs[sid].isPrivate}

\* C24: every session record that is private, durable or cached, has a
\* non-empty access key, whatever join-session calls were made (an
\* auto-create asking for a private session without a key included).
C24_PrivateHasKey ==
    /\ \A sid \in PrivateRecords(db) : db[sid].sessionKey # NoKey
    /\ \A sid \in PrivateRecords(activeSessionsInMemory) :
           activeSessionsInMemory[sid].sessionKey # NoKey

\* ---- convergence of the pages on the stroke log
\* nothing is on its way: no handler is suspended, no page has an event
\* written that the server has not taken, no stroke is being drawn
AllDelivered ==
    /\ inflight = {}
    /\ \A sk \in SocketIds : clients[sk].out = << >> /\ clients[sk].currentStroke = << >>
\* the live channels of the room of a session whose page shows that session
RoomPages(sid) == {sk \in rooms[sid] \cap live : clients[sk].sessionId = sid}

\* C25: once every event in flight is delivered, each channel in the room
\* holds the same set of finalized strokes as the server's cached stroke log
\* (so the stroke a receiver finalizes at an author's end-of-stroke batch has
\* the points of the stroke the server appended).
C25_Convergence ==
    AllDelivered =>
        \A sid \in DOMAIN activeSessionsInMemory : \A sk \in RoomPages(sid) :
            SetOf(clients[sk].whiteboardData) =
                SetOf(activeSessionsInMemory[sid].whiteboardStrokes)

\* ---- a durable write that exhausts its retries
PermissionCommands == {"set-permission", "grant-all", "revoke-all"}
\* the step is the resume of a handler whose durable write failed for good
WriteExhausted(ops, pcs) ==
    /\ dbFailures' = dbFailures + 1
    /\ last'.op \in ops /\ last'.pc \in pcs /\ ~last'.ok
\* the live channels of the room after the step
LiveRoom(sid) == rooms'[sid] \cap live'
\* the joining handler goes on after the step: it is still suspended or its
\* channel is in the room
JoinGoesOn ==
    \/ \E h \in inflight' : h.op = "join" /\ h.sock = last'.sock /\ h.sid = last'.sid
    \/ last'.sock \in rooms'[last'.sid]

\* C26: when a durable write exhausts its retries, the in-memory effect
\* stands and the live side goes on: after an owner's permission change the
\* room receives drawing-permissions-updated with the cached map, after a
\* whole-canvas replace the other room members receive whiteboard-update,
\* and a joining user who is in the cached participants goes on to join the
\* room.
C26_ExhaustedWriteKeepsLiveSide ==
    [][/\ WriteExhausted(PermissionCommands \cup {"update", "join"},
                         {"save", "add", "perm"}) =>
              activeSessionsInMemory' = activeSessionsInMemory
       /\ (WriteExhausted(PermissionCommands, {"save"})
             /\ last'.sid \in DOMAIN activeSessionsInMemory') =>
              \A t \in LiveRoom(last'.sid) :
                  \E e \in emitted' :
                      /\ e.to = t /\ e.ev = "drawing-permissions-updated"
                      /\ e.perms = activeSessionsInMemory'[last'.sid].drawingPermissions
       /\ (WriteExhausted({"update"}, {"save"})
             /\ last'.sid \in DOMAIN activeSessionsInMemory') =>
              \A t \in LiveRoom(last'.sid) \ {last'.sock} :
                  \E e \in emitted' :
                      /\ e.to = t /\ e.ev = "whiteboard-update"
                      /\ e.strokes = activeSessionsInMemory'[last'.sid].whiteboardStrokes
       /\ (WriteExhausted({"join"}, {"add", "perm"})
             /\ last'.sock \in live'
             /\ last'.sid \in DOMAIN activeSessionsInMemory'
             /\ last'.uid \in SetOf(activeSessionsInMemory'[last'.sid].participants)) =>
              JoinGoesOn]_vars

\* ---- the owner is a participant
RemovalOps == {"leave", "kick", "disconnect"}
\* a handler that removes a participant of the session is suspended
RemovalInProgress(sid) == \E h \in inflight : h.op \in RemovalOps /\ h.sid = sid

\* C27: whenever the cached participants of a session are non-empty and no
\* removal handler is in progress, the owner is one of the participants
\* (every removal of the owner that leaves participants hands ownership to
\* one of them).
C27_OwnerIsParticipant ==
    \A sid \in DOMAIN activeSessionsInMemory :
        LET st == activeSessionsInMemory[sid] IN
        (st.participants # << >> /\ ~RemovalInProgress(sid)) =>
            st.ownerId \in SetOf(st.participants)

\* ---- the cache at the suspension points
\* a join-session handler is suspended after it added its user to the cached
\* participants
JoinSuspendedAfterAdd(h) ==
    /\ h.op = "join" /\ h.pc \in {"add", "perm", "detail"} /\ h.isNew
    /\ h.sock \in live
    /\ h.sid \in DOMAIN activeSessionsInMemory
    /\ h.uid \in SetOf(activeSessionsInMemory[h.sid].participants)

\* C28: at every suspension point of a handler the cache is consistent: the
\* owner of the handler's session is one of its participants (when it has
\* any), and a user whom a join added to the participants is already in the
\* room.
C28_CacheConsistentAtSuspension ==
    \A h \in inflight :
        /\ h.sid \in DOMAIN activeSessionsInMemory =>
               LET st == activeSessionsInMemory[h.sid] IN
               st.participants # << >> => st.ownerId \in SetOf(st.participants)
        /\ JoinSuspendedAfterAdd(h) => h.sock \in rooms[h.sid]

\* ---- the durable record catches up with the cache
\* the durable record of a session holds what its cache entry holds
Persisted(sid) ==
    LET st == activeSessionsInMemory[sid]
        doc == db[sid]
    IN /\ doc.whiteboardStrokes = st.whiteboardStrokes
       /\ doc.messages = st.messages
       /\ doc.drawingPermissions = st.drawingPermissions
       /\ doc.host = st.ownerId
       /\ SetOf(doc.participants) = SetOf(st.participants)

\* C29: when no durable write fails and every outstanding write has
\* completed, the durable record of each cached session has the strokes,
\* messages, drawing permissions, owner and participants of the cache entry.
C29_CacheEventuallyPersisted ==
    Quiet => \A sid \in DOMAIN activeSessionsInMemory :
                 sid \in DOMAIN db /\ Persisted(sid)

\* ---------------------------------------------------------------- retry wrappers
\* The durable-store wrappers, attempt by attempt. A call in progress is a
\* record in inflight: the wrapper, its arguments, its position (about to
\* try, or sleeping after a failed attempt) and its local counter retries.
MAX_RETRIES == 3
MaxCalls == 3
Wrappers ==
    {"createOrUpdateMongoSession", "getMongoSession", "updateSessionInMongoDB",
     "addParticipantToMongoSession", "removeParticipantFromMongoSession",
     "deleteMongoSession"}
WrapperCall(w, sid, u, inp, strokes) ==
    [op |-> w, sid |-> sid, uid |-> u, inp |-> inp, strokes |-> strokes,
     pc |-> "try", retries |-> 0]

\* what a successful attempt of the wrapper leaves in the collection
WrapperEffect(c, d) ==
    CASE c.op = "createOrUpdateMongoSession" ->
             CreateOrUpdateMongoSession(d, c.sid, c.inp, c.uid)
      [] c.op = "getMongoSession" -> d
      [] c.op = "updateSessionInMongoDB" ->
             UpdateField(d, c.sid, "whiteboardStrokes", c.strokes)
      [] c.op = "addParticipantToMongoSession" ->
             AddParticipantToMongoSession(d, c.sid, c.uid)
      [] c.op = "removeParticipantFromMongoSession" ->
             RemoveParticipantFromMongoSession(d, c.sid, c.uid)
      [] c.op = "deleteMongoSession" -> DeleteMongoSession(d, c.sid)

\* the catch block never gives up
ExhaustedNever(retries) == retries > MAX_RETRIES
\* if (retries === MAX_RETRIES) throw error
Exhausted(retries) == retries = MAX_RETRIES
\* while (retries < MAX_RETRIES)
LoopGoesOn(retries) == retries < MAX_RETRIES

\* what a step of a wrapper leaves unchanged
WrapperFrame ==
    /\ emitted' = {}
    /\ UNCHANGED <<live, nextSock, sockUser, rooms, activeSessionsInMemory,
                   socketIdToSessionInfo, activeUserSockets, pendingJoinRequests,
                   sessionDeletionTimeouts, timers, nextTimer, dbFailures, clients>>
    /\ RoundTripStep

\* a handler calls a wrapper: let retries = 0
CallWrapper(w, sid, u, inp, strokes) ==
    /\ ClientStep
    /\ inflight = {}
    /\ inflight' = {WrapperCall(w, sid, u, inp, strokes)}
    /\ last' = Label(w, "called", 0, sid, u)
    /\ Count
    /\ UNCHANGED db
    /\ WrapperFrame

\* one pass through the try block: the store calls succeed and the wrapper
\* returns, or one of them throws and the catch block counts the failure
WrapperAttempt(c, outcome) ==
    /\ c \in inflight /\ c.pc = "try"
    /\ LET lbl == [Label(c.op, "", 0, c.sid, c.uid)
                      EXCEPT !.tgt = outcome, !.before = c.retries,
                             !.ok = (outcome = "ok")]
           retries == c.retries + 1
       IN IF outcome = "ok"
          THEN /\ db' = WrapperEffect(c, db)
               /\ inflight' = inflight \ {c}
               /\ last' = [lbl EXCEPT !.pc = "returned"]
          ELSE /\ UNCHANGED db
               /\ IF Exhausted(retries)
                  THEN /\ inflight' = inflight \ {c}
                       /\ last' = [lbl EXCEPT !.pc = "thrown"]
                  ELSE /\ inflight' = (inflight \ {c}) \cup
                              {[c EXCEPT !.pc = "sleep", !.retries = retries]}
                       /\ last' = [lbl EXCEPT !.pc = "sleep"]
    /\ UNCHANGED eventsLeft
    /\ WrapperFrame

\* the RETRY_DELAY timeout resolves and the loop condition is tested again;
\* when it fails the function ends without a throw
WrapperWake(c) ==
    /\ c \in inflight /\ c.pc = "sleep"
    /\ LET lbl == [Label(c.op, "", 0, c.sid, c.uid) EXCEPT !.before = c.retries] IN
       IF LoopGoesOn(c.retries)
       THEN /\ inflight' = (inflight \ {c}) \cup {[c EXCEPT !.pc = "try"]}
            /\ last' = [lbl EXCEPT !.pc = "try"]
       ELSE /\ inflight' = inflight \ {c}
            /\ last' = [lbl EXCEPT !.pc = "fell-through"]
    /\ UNCHANGED <<db, eventsLeft>>
    /\ WrapperFrame

RetryNext ==
    \/ \E w \in Wrappers, sid \in Sessions, u \in Users,
          inp \in {PublicCreate, PrivateCreate}, strokes \in StrokeLists :
          CallWrapper(w, sid, u, inp, strokes)
    \/ \E c \in inflight, outcome \in {"ok", "error"} : WrapperAttempt(c, outcome)
    \/ \E c \in inflight : WrapperWake(c)
\* a call in progress goes on: the store answers and the timeout resolves
WrapperStep == RetryNext /\ eventsLeft' = eventsLeft
InitRetry == Start(MaxCalls)
SpecRetry == InitRetry /\ [][RetryNext]_vars /\ WF_vars(WrapperStep)

\* the step is an attempt of call c: c was about to try and has moved
Attempted(c) == c.pc = "try" /\ c \notin inflight'
\* the call of the step has ended
CallEnded == inflight' = {}

\* C30: every durable-store wrapper terminates: a call makes at most
\* MAX_RETRIES attempts, makes no further attempt after its first success
\* (it returns), and after its MAX_RETRIES-th failed attempt it raises the
\* error instead of returning; until then a failed attempt is followed by
\* another one.
C30_WrappersTerminate ==
    /\ [](\A c \in inflight : c.retries < MAX_RETRIES)
    /\ [][/\ \A c \in inflight : Attempted(c) =>
                /\ last'.before = c.retries
                /\ last'.tgt = "ok" => (last'.pc = "returned" /\ CallEnded)
                /\ last'.tgt = "error" =>
                       IF c.retries + 1 = MAX_RETRIES
                       THEN last'.pc = "thrown" /\ CallEnded
                       ELSE \E c2 \in inflight' :
                                /\ c2.pc = "sleep" /\ c2.retries = c.retries + 1
                                /\ c2.op = c.op
          /\ last'.pc = "returned" => last'.tgt = "ok"
          /\ last'.pc # "fell-through"]_vars
    /\ (inflight # {}) ~> (inflight = {})
\* a wrapper raised the error at its last allowed attempt
C30_Witness ==
    /\ last.op \in Wrappers /\ last.pc = "thrown"
    /\ last.before + 1 = MAX_RETRIES
    /\ inflight = {}

\* ---- two joins racing on the auto-create
\* the step is the resume of a join-session handler after its
\* createOrUpdateMongoSession call succeeded
CreateResumed(h) ==
    /\ h \in inflight /\ h.op = "join" /\ h.pc = "create"
    /\ h \notin inflight'
    /\ dbFailures' = dbFailures

\* C31: a join-session carrying a session name never alters a session that
\* already exists: when the create call of a second handler completes on an
\* existing record, the record keeps its owner, its drawing permissions, its
\* strokes and its messages.
C31_CreateKeepsExistingSession ==
    [][\A h \in inflight :
          (CreateResumed(h) /\ h.sid \in DOMAIN db) =>
              /\ h.sid \in DOMAIN db'
              /\ db'[h.sid].host = db[h.sid].host
              /\ db'[h.sid].drawingPermissions = db[h.sid].drawingPermissions
              /\ db'[h.sid].whiteboardStrokes = db[h.sid].whiteboardStrokes
              /\ db'[h.sid].messages = db[h.sid].messages]_vars

\* ---- the cleanup timer and a joining user
\* C32: the cleanup never removes a session that has a participant: every
\* cache entry with at least one participant has a durable record.
C32_ParticipantsHaveRecord ==
    \A sid \in DOMAIN activeSessionsInMemory :
        activeSessionsInMemory[sid].participants # << >> => sid \in DOMAIN db

\* ---- the connection registry
\* C33: the connection registry never maps a user to a channel that has
\* disconnected: every registered channel is live.
C33_RegisteredChannelsAreLive ==
    \A u \in DOMAIN activeUserSockets : activeUserSockets[u] \in live

\* ---- ghost participants
\* C34: whenever no handler is in progress, every participant of a cached
\* session has a live channel bound to that session.
C34_NoGhostParticipants ==
    Quiet => \A sid \in DOMAIN activeSessionsInMemory :
                 \A u \in SetOf(activeSessionsInMemory[sid].participants) :
                     \E sk \in live : Bound(sk, sid, u)

\* ---- events whose payload names another user
MaxForgeEvents == 5
\* a client written by hand puts any user id in the payload
AnyPayloadUsers == Users
\* a public session with channels that send user-leave-session and
\* whiteboard-point under any user id
ForgeNext ==
    \/ \E u \in Users : Connect(u)
    \/ \E sk \in SocketIds, sid \in Sessions : JoinSession(sk, sid, PublicCreate)
    \/ \E h \in inflight : JoinGet(h, "ok")
    \/ \E h \in inflight : JoinCreate(h, "ok")
    \/ \E h \in inflight : JoinAdd(h, "ok")
    \/ \E h \in inflight : JoinPerm(h, "ok")
    \/ \E h \in inflight : JoinDetail(h, "ok")
    \/ \E sk \in SocketIds, sid \in Sessions :
          UserLeaveSessionAs(sk, sid, AnyPayloadUsers)
    \/ \E h \in inflight : LeaveRemove(h, "ok")
    \/ \E h \in inflight : LeaveUpdate(h, "ok")
    \/ \E sk \in SocketIds, sid \in Sessions, pts \in PointBatches, isEnd \in BOOLEAN :
          WhiteboardPointAs(sk, sid, pts, isEnd, AnyPayloadUsers) /\ UNCHANGED clients
    \/ \E h \in inflight : StrokesSaved(h, "ok")
InitForge == Start(MaxForgeEvents)
SpecForge == InitForge /\ [][ForgeNext]_vars

\* the step is a client event of the given kind whose payload user is not
\* the user of the sending channel
SentForAnother(op) ==
    /\ ClientEvent
    /\ last'.op = op /\ last'.pc = "start"
    /\ last'.uid # sockUser[last'.sock]

\* C35: a user-leave-session whose payload names a user other than the one
\* of the sending channel removes nobody: the cache (participants, owner) is
\* unchanged, no removal is started and no cleanup timer is armed.
C35_LeaveRemovesOnlyOneself ==
    [][SentForAnother("leave") =>
          /\ activeSessionsInMemory' = activeSessionsInMemory
          /\ inflight' = inflight
          /\ timers' = timers]_vars

\* the step is a whiteboard-point batch that is accepted (rebroadcast, and
\* saved when it ends a stroke)
PointAccepted ==
    /\ ClientEvent
    /\ last'.op = "point" /\ last'.pc = "start" /\ last'.ok
\* the user bound to the sending channel is a participant of the session
\* and is its owner or has drawing permission
SenderMayDraw(sk, sid) ==
    /\ sk \in DOMAIN socketIdToSessionInfo
    /\ Info(sk).sessionId = sid
    /\ Info(sk).userId \in SetOf(activeSessionsInMemory[sid].participants)
    /\ MayDraw(activeSessionsInMemory[sid], Info(sk).userId)

\* C36: the draw gate is applied to the identity of the sending channel: a
\* whiteboard-point batch is accepted only if the user bound to the sending
\* channel is a current participant of the session and is the owner or has
\* drawing permission, whatever user id the payload names.
C36_DrawGateOnSender ==
    [][PointAccepted => SenderMayDraw(last'.sock, last'.sid)]_vars

\* ---- user-left for a user who is not a participant
\* the step is a disconnect that starts the removal of its user: the handler
\* that removes the user from the durable record, broadcasts user-left and
\* arms the cleanup timer when nobody is left
DisconnectRemoves ==
    /\ ClientEvent
    /\ last'.op = "disconnect" /\ last'.pc = "start"
    /\ \E h \in inflight' \ inflight : h.op = "disconnect" /\ h.sock = last'.sock

\* C37: user-left is never broadcast for a user who is not a participant at
\* that moment: the disconnect of a channel whose user is not in the
\* participants of its session (kicked before, join failed, join awaiting
\* approval) starts no removal, so it broadcasts no user-left and arms no
\* cleanup timer.
C37_UserLeftOnlyForParticipants ==
    [][DisconnectRemoves =>
          last'.uid \in SetOf(activeSessionsInMemory[last'.sid].participants)]_vars

\* ---- chat from outside the session
\* the step is a chat-message that is appended to the cached log (and will
\* be written to the store and rebroadcast)
ChatAccepted ==
    /\ ClientEvent
    /\ last'.op = "chat" /\ last'.pc = "start" /\ last'.ok

\* C38: only a current participant adds to the chat log: a chat-message is
\* appended (and then written and rebroadcast) only if the user of the
\* sending channel is in the participants of the session.
C38_ChatOnlyFromParticipants ==
    [][ChatAccepted =>
          sockUser[last'.sock] \in
              SetOf(activeSessionsInMemory[last'.sid].participants)]_vars

\* ---- a join that fails
MaxFailEvents == 5
\* the session a channel is bound to ("" when it has no binding)
BoundSession(sk) ==
    IF sk \in DOMAIN socketIdToSessionInfo THEN Info(sk).sessionId ELSE ""
\* connections, joins of every kind (each handler noting the binding its
\* channel had when the event arrived), store errors, and disconnects
FailNext ==
    \/ \E u \in Users : Connect(u)
    \/ \E sk \in SocketIds : Disconnect(sk)
    \/ \E sk \in SocketIds, sid \in Sessions, inp \in JoinInputs :
          JoinSessionNoting(sk, sid, inp, BoundSession(sk))
    \/ \E h \in inflight, outcome \in {"ok", "fail"} : JoinGet(h, outcome)
    \/ \E h \in inflight, outcome \in {"ok", "fail"} : JoinCreate(h, outcome)
    \/ \E h \in inflight : JoinAdd(h, "ok")
    \/ \E h \in inflight : JoinPerm(h, "ok")
    \/ \E h \in inflight : JoinDetail(h, "ok")
    \/ \E h \in inflight : DisconnectRemove(h, "ok")
    \/ \E h \in inflight : DisconnectUpdate(h, "ok")
InitFail == Start(MaxFailEvents)
SpecFail == InitFail /\ [][FailNext]_vars

JoinFailures ==
    {"not-found", "invalid-key", "owner-offline", "fetch-error", "create-error"}
\* the step ends the join-session handler h in one of its failures
JoinFailed(h) ==
    /\ h \in inflight /\ h.op = "join" /\ h \notin inflight'
    /\ last'.op = "join" /\ last'.sock = h.sock /\ ~last'.ok
    /\ last'.tgt \in JoinFailures

\* C39: a failed join changes nothing: the step that ends a join-session in
\* session-not-found, an invalid-key failure, an owner-offline failure or a
\* store error leaves the cache and the pending requests as they were, and
\* the channel keeps the session binding it had before the call (none when
\* it had none).
C39_FailedJoinChangesNothing ==
    [][\A h \in inflight :
          JoinFailed(h) =>
              /\ activeSessionsInMemory' = activeSessionsInMemory
              /\ pendingJoinRequests' = pendingJoinRequests
              /\ h.sock \in live' =>
                     IF h.tgt = ""
                     THEN h.sock \notin DOMAIN socketIdToSessionInfo'
                     ELSE /\ h.sock \in DOMAIN socketIdToSessionInfo'
                          /\ socketIdToSessionInfo'[h.sock].sessionId = h.tgt]_vars
====
